---------------------------- MODULE Spec2Model ----------------------------
(***************************************************************************)
(* Model of the hitting-metrics engine of src/app.py: the percentile-rank  *)
(* comparator (calculate_hitting_percentile_rank and its wrapper) and the  *)
(* summary statistics engine (calculate_hitting_summary) with its two      *)
(* warehouse lookups.                                                      *)
(*                                                                         *)
(* Conventions.                                                            *)
(*  - A Python value that may be None is a sequence of length 0 or 1:      *)
(*    None is <<>>, a present value x is <<x>>.                            *)
(*  - A value that Python rounds with round(x, 1) is held as an integer    *)
(*    number of tenths (66.7 is 667); unrounded values are exact rationals *)
(*    [n |-> numerator, d |-> denominator] in lowest terms with d > 0.     *)
(***************************************************************************)
EXTENDS Integers, Sequences, FiniteSets, TLC

VARIABLES
    player_value,       \* argument of calculate_hitting_percentile_rank
    college_data_list,  \* argument of calculate_hitting_percentile_rank
    rank_result,        \* what calculate_hitting_percentile_rank returned
    diff_result,        \* what the ..._with_percentile wrapper returned
    called,             \* which of the two comparator functions have run
    hitting_data,       \* the event rows handed to calculate_hitting_summary
    hitter_name,        \* the hitter_name argument of the last summary call
    prospect_comp,      \* warehouse: outcome of the competition-level query
    ncaa_reply,         \* warehouse: outcome of the reference-average queries
    summary,            \* what calculate_hitting_summary returned
    lookups,            \* the lookups the last summary call performed
    summarized,         \* TRUE once calculate_hitting_summary has run
    direction,          \* argument of calculate_spray_position (degrees)
    distance,           \* argument of calculate_spray_position (feet)
    spray_position,     \* the (x, y) calculate_spray_position returned
    sprayed,            \* TRUE once calculate_spray_position has run
    cmp_player,         \* player_value argument of calculate_hitting_comparison
    cmp_reference,      \* college_average argument of calculate_hitting_comparison
    cmp_result,         \* what calculate_hitting_comparison returned
    compared,           \* TRUE once calculate_hitting_comparison has run
    tier_replies,       \* warehouse: the reference replies for each tier
    multi_result,       \* what get_multi_level_hitting_comparisons returned
    multi_lookups,      \* the lookups the multi-level sweep performed
    multi_called,       \* TRUE once get_multi_level_hitting_comparisons has run
    contact_data,       \* argument: the contact records of a hitter
    contact_views,      \* what generate_contact_points_html returned or raised
    contact_called,     \* TRUE once generate_contact_points_html has run
    contact_stats,      \* what calculate_contact_stats returned or raised
    stats_called,       \* TRUE once calculate_contact_stats has run
    module_config,      \* module level: the warehouse client and the mail credentials
    requests,           \* per report request: its inputs, position and results
    frames,             \* the local variables of each running request
    spray_chart_data,   \* argument: the spray chart records of a hitter
    spray_chart,        \* what generate_spray_chart_html returned
    chart_called,       \* TRUE once generate_spray_chart_html has run
    mail_config,        \* module level: EMAIL_HOST, EMAIL_PORT, EMAIL_USERNAME, EMAIL_PASSWORD
    mail_input,         \* arguments of send_hitter_email and the rendering outcome
    smtp_outcomes,      \* mail servers: the step at which each attempt fails, if any
    mail_log,           \* what send_hitter_email did: PDF generation and SMTP attempts
    mail_result,        \* what send_hitter_email returned
    mail_called,        \* TRUE once send_hitter_email has run
    batch_input,        \* send_emails: the request, the warehouse's replies, the mail servers
    batch_attempts,     \* the prospect rows send_hitter_email was called for, in order
    batch_response,     \* what send_emails returned
    batch_called,       \* TRUE once send_emails has run
    level_id,           \* a level identifier handed to the two reference queries
    level_filters,      \* the WHERE clauses the two reference queries built for it
    level_called        \* TRUE once the two clauses have been built

rankVars == <<player_value, college_data_list, rank_result, diff_result, called>>

summaryVars == <<hitting_data, hitter_name, prospect_comp, ncaa_reply, summary,
                 lookups, summarized>>

sprayVars == <<direction, distance, spray_position, sprayed>>

cmpVars == <<cmp_player, cmp_reference, cmp_result, compared>>

multiVars == <<tier_replies, multi_result, multi_lookups, multi_called>>

contactVars == <<contact_data, contact_views, contact_called, contact_stats, stats_called>>

concVars == <<module_config, requests, frames>>

chartVars == <<spray_chart_data, spray_chart, chart_called>>

mailVars == <<mail_config, mail_input, smtp_outcomes, mail_log, mail_result, mail_called>>

batchVars == <<batch_input, batch_attempts, batch_response, batch_called>>

levelVars == <<level_id, level_filters, level_called>>

vars == <<rankVars, summaryVars, sprayVars, cmpVars, multiVars, contactVars, concVars, chartVars, mailVars, batchVars, levelVars>>

---------------------------------------------------------------------------
(* Bounds *)

MaxPop == 106

MaxSmallPop == 3

MaxEvents == 2

MaxLongEvents == 12

MaxDistance == 510

---------------------------------------------------------------------------
(* Option values and exact arithmetic *)

None == <<>>

Some(x) == <<x>>

Abs(x) == IF x < 0 THEN -x ELSE x

RECURSIVE Gcd(_, _)
Gcd(a, b) == IF b = 0 THEN a ELSE Gcd(b, a % b)

Rat(n, d) ==
    LET g == Gcd(Abs(n), d)
    IN  [n |-> n \div g, d |-> d \div g]

\* Python round(x, 1) of the rational n/d, as a number of tenths: the nearest
\* tenth, an exact tie going to the even tenth.  (binary64 evaluation agrees
\* with this for every quotient the bounded inputs below can produce.)
Round1(n, d) ==
    LET q  == (10 * n) \div d
        r2 == 2 * ((10 * n) % d)
    IN  IF r2 > d \/ (r2 = d /\ q % 2 = 1) THEN q + 1 ELSE q

\* Python round(x) of the rational n/d: the nearest integer, an exact tie going
\* to the even one
RoundInt(n, d) ==
    LET q  == n \div d
        r2 == 2 * (n % d)
    IN  IF r2 > d \/ (r2 = d /\ q % 2 = 1) THEN q + 1 ELSE q

Range(s) == {s[i] : i \in DOMAIN s}

\* Python sorted(list): the ascending arrangement of the same elements, built
\* value by value from the smallest, each value as often as it occurs.
RECURSIVE SortFrom(_, _)
SortFrom(s, vals) ==
    IF vals = {} THEN <<>>
    ELSE LET m == CHOOSE x \in vals : \A y \in vals : x <= y
             c == Cardinality({j \in DOMAIN s : s[j] = m})
         IN  [i \in 1..c |-> m] \o SortFrom(s, vals \ {m})

sorted(s) == SortFrom(s, Range(s))

---------------------------------------------------------------------------
(* Population comparator *)

\* sum(1 for value in sorted_college_data if value < player_value)
values_below_le(sorted_college_data, v) ==
    Cardinality({i \in DOMAIN sorted_college_data : sorted_college_data[i] <= v})

values_below(sorted_college_data, v) ==
    Cardinality({i \in DOMAIN sorted_college_data : sorted_college_data[i] < v})

\* the guard of calculate_hitting_percentile_rank
rank_guard_falsy(pv, cdl) == pv = None \/ pv = Some(0) \/ cdl = None \/ cdl = Some(<<>>)

rank_guard(pv, cdl) == pv = None \/ cdl = None \/ cdl = Some(<<>>)

calculate_hitting_percentile_rank(pv, cdl) ==
    IF rank_guard(pv, cdl) THEN None
    ELSE
        LET sorted_college_data == sorted(cdl[1])
            total_count == Len(sorted_college_data)
            below == values_below(sorted_college_data, pv[1])
            rounded == Round1(100 * below, total_count)
            final_percentile ==
                IF rounded <= 0 THEN 10
                ELSE IF rounded >= 1000 THEN 990
                ELSE rounded
        IN  Some([percentile |-> final_percentile,
                  better |-> final_percentile >= 500,
                  total_hitters |-> total_count])

calculate_hitting_difference_from_average_with_percentile(pv, college_data) ==
    IF pv = None \/ college_data = None \/ college_data = Some(<<>>) THEN None
    ELSE
        LET percentile_result == calculate_hitting_percentile_rank(pv, college_data)
        IN  IF percentile_result = None THEN None
            ELSE Some([difference |-> percentile_result[1].percentile,
                       better |-> percentile_result[1].better,
                       absolute_diff |-> Abs(percentile_result[1].percentile - 500)])

---------------------------------------------------------------------------
(* Inputs of the comparator *)

PopValues == {80, 90, 100}

ExamplePop == <<80, 85, 90, 95, 100>>

RECURSIVE SeqsUpTo(_, _)
SeqsUpTo(S, n) ==
    IF n = 0 THEN {<<>>}
    ELSE LET shorter == SeqsUpTo(S, n - 1)
         IN  shorter \cup {Append(s, x) : s \in {t \in shorter : Len(t) = n - 1}, x \in S}

\* a population of n hitters, k of them at 80 and the others at 100
BlockPop(n, k) == [i \in 1..n |-> IF i <= k THEN 80 ELSE 100]

LargePopSizes == (MaxPop - 2)..MaxPop

Populations ==
    SeqsUpTo(PopValues, MaxSmallPop) \cup {ExamplePop}
    \cup UNION {{BlockPop(n, k) : k \in 0..n} : n \in LargePopSizes}

PlayerValues == {0, 79, 80, 92, 100, 101}

---------------------------------------------------------------------------
(* Warehouse lookups used by the summary engine *)

\* get_hitter_competition_level: the prospect row's Comp, 'D1' when there is
\* no row, when Comp is empty or when the query raises.
get_hitter_competition_level(reply) ==
    IF reply.raised THEN "D1"
    ELSE IF reply.rows # <<>> /\ reply.rows[1].Comp # None /\ reply.rows[1].Comp # Some("")
         THEN reply.rows[1].Comp[1]
         ELSE "D1"

\* the WHERE clause get_college_hitting_averages builds for a level
level_filter(comparison_level) ==
    IF comparison_level = "SEC" THEN "League = 'SEC'"
    ELSE IF comparison_level \in {"D1", "D2", "D3"}
         THEN IF comparison_level = "D1" THEN "Level = 'D1'"
              ELSE IF comparison_level = "D2" THEN "Level = 'D2'"
              ELSE "Level = 'D3'"
         ELSE "Level = 'D1'"

\* float(x) if x else None
float_if_truthy(x) == IF x = None \/ x[1].n = 0 THEN None ELSE x

\* the dictionary built from the two result rows
college_data_of(reply) ==
    [avg_exit_velo |-> float_if_truthy(reply.ball_row.avg_exit_velo),
     max_exit_velo |-> float_if_truthy(reply.max_row.avg_max_exit_velo),
     percentile_90_exit_velo |-> float_if_truthy(reply.ball_row.percentile_90_exit_velo),
     barrel_rate |-> float_if_truthy(reply.ball_row.barrel_rate),
     hardhit_rate |-> float_if_truthy(reply.ball_row.hardhit_rate),
     total_batted_balls |-> reply.ball_row.total_batted_balls,
     total_batters |-> IF reply.max_row.total_batters = 0 THEN None
                       ELSE Some(reply.max_row.total_batters)]

\* get_college_hitting_averages: None when a query raises (the except clause)
\* or when no batted ball matched the level filter.
get_college_hitting_averages_fallback(comparison_level, reply) ==
    IF reply.raised \/ reply.ball_row.total_batted_balls = 0
    THEN Some([avg_exit_velo |-> Some(Rat(88, 1)), max_exit_velo |-> Some(Rat(104, 1)),
               percentile_90_exit_velo |-> Some(Rat(101, 1)),
               barrel_rate |-> Some(Rat(12, 1)), hardhit_rate |-> Some(Rat(33, 1)),
               total_batted_balls |-> 1, total_batters |-> None])
    ELSE Some(college_data_of(reply))

get_college_hitting_averages(comparison_level, reply) ==
    IF reply.raised THEN None
    ELSE IF reply.ball_row.total_batted_balls > 0
         THEN Some(college_data_of(reply))
         ELSE None

RatSub(a, b) == Rat(a.n * b.d - b.n * a.d, a.d * b.d)

calculate_hitting_comparison_or_equal(pv, college_average) ==
    IF pv = None \/ college_average = None THEN None
    ELSE LET difference == RatSub(pv[1], college_average[1])
         IN  Some([difference |-> difference,
                   better |-> difference.n >= 0,
                   absolute_diff |-> Rat(Abs(difference.n), difference.d)])

calculate_hitting_comparison(pv, college_average) ==
    IF pv = None \/ college_average = None THEN None
    ELSE LET difference == RatSub(pv[1], college_average[1])
         IN  Some([difference |-> difference,
                   better |-> difference.n > 0,
                   absolute_diff |-> Rat(Abs(difference.n), difference.d)])

---------------------------------------------------------------------------
(* Summary statistics engine *)

\* h.get('ExitSpeed') is truthy: neither None nor 0
usable_not_none(h) == h.ExitSpeed # None

usable(h) == h.ExitSpeed # None /\ h.ExitSpeed[1] # 0

balls_with_ev_of(hd) == SelectSeq(hd, usable)

RECURSIVE SumSeq(_)
SumSeq(s) == IF s = <<>> THEN 0 ELSE s[1] + SumSeq(Tail(s))

MaxOf(s) == CHOOSE x \in Range(s) : \A y \in Range(s) : y <= x

\* int(0.9 * len(sorted_velocities))
percentile_90_index_of_last(n) == (9 * (n - 1)) \div 10

percentile_90_index(n) == (9 * n) \div 10

is_hard_hit(hit) == hit.ExitSpeed[1] >= 95

is_barrel_any_speed(hit) ==
    hit.Angle # None /\ 8 <= hit.Angle[1] /\ hit.Angle[1] <= 32

is_barrel_open_ended(hit) ==
    is_hard_hit(hit) /\ hit.Angle # None /\ 8 < hit.Angle[1] /\ hit.Angle[1] < 32

is_barrel(hit) ==
    is_hard_hit(hit) /\ hit.Angle # None /\ 8 <= hit.Angle[1] /\ hit.Angle[1] <= 32

\* the denominator of the two rates: len(balls_with_ev)
total_balls(hd, balls) == Len(balls)

\* the comparison level and reference averages fetched for a hitter name, with
\* the lookups made
reference_lookup(name, prospect, ncaa) ==
    IF name # None /\ name # Some("")
    THEN LET comparison_level == get_hitter_competition_level(prospect)
         IN  [comparison_level |-> Some(comparison_level),
              college_averages |-> get_college_hitting_averages(comparison_level, ncaa),
              log |-> <<[fn |-> "get_hitter_competition_level", arg |-> name[1]],
                        [fn |-> "get_college_hitting_averages",
                         arg |-> level_filter(comparison_level)]>>]
    ELSE [comparison_level |-> None, college_averages |-> None, log |-> <<>>]

zero_summary ==
    [avg_exit_velo |-> 0, percentile_90_ev |-> 0, max_exit_velo |-> 0,
     barrel_rate |-> 0, hardhit_rate |-> 0]

\* round(college_averages[k], 1) if college_averages and college_averages[k] else None
rounded_reference(college_averages, k) ==
    IF college_averages # None /\ college_averages[1][k] # None
    THEN Some(Round1(college_averages[1][k][1].n, college_averages[1][k][1].d))
    ELSE None

\* the player value handed to calculate_hitting_comparison: the local computed
\* before any rounding (rounding happens only in the returned dictionary)
comparison_input_rounded(unrounded) == Rat(Round1(unrounded.n, unrounded.d), 10)

comparison_input(unrounded) == unrounded

\* the part of calculate_hitting_summary after the two early returns, given
\* the comparison level and the reference averages it fetched
summary_with_reference(hd, balls, ref) ==
    LET exit_velocities == [i \in 1..Len(balls) |-> balls[i].ExitSpeed[1]]
        avg_exit_velo == Rat(SumSeq(exit_velocities), Len(exit_velocities))
        max_exit_velo == Rat(MaxOf(exit_velocities), 1)
        sorted_velocities == sorted(exit_velocities)
        percentile_90_ev ==
            Rat(sorted_velocities[percentile_90_index(Len(sorted_velocities)) + 1], 1)
        hard_hits == Cardinality({i \in 1..Len(balls) : is_hard_hit(balls[i])})
        barrels == Cardinality({i \in 1..Len(balls) : is_barrel(balls[i])})
        total_balls_with_ev == total_balls(hd, balls)
        barrel_rate == Rat(barrels * 100, total_balls_with_ev)
        hardhit_rate == Rat(hard_hits * 100, total_balls_with_ev)
        ca == ref.college_averages
        comp(pv, k) ==
            IF ca # None
            THEN calculate_hitting_comparison(Some(comparison_input(pv)), ca[1][k])
            ELSE None
    IN  Some(
            [avg_exit_velo |-> Round1(avg_exit_velo.n, avg_exit_velo.d),
             percentile_90_ev |-> Round1(percentile_90_ev.n, percentile_90_ev.d),
             max_exit_velo |-> Round1(max_exit_velo.n, max_exit_velo.d),
             barrel_rate |-> Round1(barrel_rate.n, barrel_rate.d),
             hardhit_rate |-> Round1(hardhit_rate.n, hardhit_rate.d),
             comparison_level |-> ref.comparison_level,
             college_avg_exit_velo |-> rounded_reference(ca, "avg_exit_velo"),
             college_percentile_90_ev |-> rounded_reference(ca, "percentile_90_exit_velo"),
             college_max_exit_velo |-> rounded_reference(ca, "max_exit_velo"),
             college_barrel_rate |-> rounded_reference(ca, "barrel_rate"),
             college_hardhit_rate |-> rounded_reference(ca, "hardhit_rate"),
             avg_exit_velo_comp |-> comp(avg_exit_velo, "avg_exit_velo"),
             percentile_90_ev_comp |-> comp(percentile_90_ev, "percentile_90_exit_velo"),
             max_exit_velo_comp |-> comp(max_exit_velo, "max_exit_velo"),
             barrel_rate_comp |-> comp(barrel_rate, "barrel_rate"),
             hardhit_rate_comp |-> comp(hardhit_rate, "hardhit_rate")])

full_summary(hd, balls, name, prospect, ncaa) ==
    LET ref == reference_lookup(name, prospect, ncaa)
    IN  [ret |-> summary_with_reference(hd, balls, ref), lookups |-> ref.log]

\* calculate_hitting_summary(hitting_data, hitter_name), with the replies the
\* warehouse gives to its two lookups; ret is the returned value and lookups
\* the lookups made, in order.
calculate_hitting_summary_lookup_first(hd, name, prospect, ncaa) ==
    IF hd = <<>> THEN [ret |-> None, lookups |-> <<>>]
    ELSE IF balls_with_ev_of(hd) = <<>>
         THEN [ret |-> Some(zero_summary),
               lookups |-> reference_lookup(name, prospect, ncaa).log]
         ELSE full_summary(hd, balls_with_ev_of(hd), name, prospect, ncaa)

calculate_hitting_summary(hd, name, prospect, ncaa) ==
    IF hd = <<>> THEN [ret |-> None, lookups |-> <<>>]
    ELSE IF balls_with_ev_of(hd) = <<>>
         THEN [ret |-> Some(zero_summary), lookups |-> <<>>]
         ELSE full_summary(hd, balls_with_ev_of(hd), name, prospect, ncaa)

---------------------------------------------------------------------------
(* Inputs of the summary engine *)

Ev(es, an) == [ExitSpeed |-> es, Angle |-> an]

EventPool ==
    {Ev(Some(100), Some(20)), Ev(Some(90), Some(5)), Ev(Some(96), Some(15)),
     Ev(Some(95), Some(8)), Ev(Some(95), Some(32)), Ev(Some(100), Some(33)),
     Ev(Some(100), Some(7)), Ev(Some(100), None), Ev(Some(94), Some(20)),
     Ev(None, Some(20)), Ev(Some(0), Some(15))}

ExampleEvents ==
    <<Ev(Some(100), Some(20)), Ev(Some(90), Some(5)), Ev(Some(96), Some(15))>>

\* n usable events: k1 at 100 mph, then k2 at 90 mph, the others at 96 mph
BlockEvents(n, k1, k2) ==
    [i \in 1..n |-> IF i <= k1 THEN Ev(Some(100), Some(20))
                    ELSE IF i <= k1 + k2 THEN Ev(Some(90), Some(5))
                    ELSE Ev(Some(96), Some(15))]

LongLists ==
    UNION {UNION {{BlockEvents(n, k1, k2) : k2 \in 0..(n - k1)} : k1 \in 0..n}
           : n \in (MaxLongEvents - 1)..MaxLongEvents}

EventLists == SeqsUpTo(EventPool, MaxEvents) \cup {ExampleEvents} \cup LongLists

HitterNames == {None, Some(""), Some("Ann")}

NoRow == [avg_exit_velo |-> None, percentile_90_exit_velo |-> None,
          barrel_rate |-> None, hardhit_rate |-> None, total_batted_balls |-> 0]

ProspectReplies ==
    {[raised |-> TRUE, rows |-> <<>>],
     [raised |-> FALSE, rows |-> <<>>],
     [raised |-> FALSE, rows |-> <<[Comp |-> Some("D2")]>>]}

NcaaRaise ==
    [raised |-> TRUE, ball_row |-> NoRow,
     max_row |-> [avg_max_exit_velo |-> None, total_batters |-> 0]]

NcaaNoData ==
    [raised |-> FALSE, ball_row |-> NoRow,
     max_row |-> [avg_max_exit_velo |-> None, total_batters |-> 0]]

NcaaData ==
    [raised |-> FALSE,
     ball_row |-> [avg_exit_velo |-> Some(Rat(8846, 100)),
                   percentile_90_exit_velo |-> Some(Rat(1013, 10)),
                   barrel_rate |-> Some(Rat(125, 10)),
                   hardhit_rate |-> Some(Rat(3333, 100)),
                   total_batted_balls |-> 5000],
     max_row |-> [avg_max_exit_velo |-> Some(Rat(1042, 10)), total_batters |-> 300]]

NcaaDataNoBarrels ==
    [NcaaData EXCEPT !.ball_row.barrel_rate = Some(Rat(0, 1))]

NcaaReplies == {NcaaRaise, NcaaNoData, NcaaData, NcaaDataNoBarrels}

---------------------------------------------------------------------------
(* Specification of the summary engine *)

\* Each function is called on its own arguments; the arguments and results of
\* the functions a specification does not exercise stay at these values.
IdleRank ==
    /\ player_value = None
    /\ college_data_list = None
    /\ rank_result = None
    /\ diff_result = None
    /\ called = {}

IdleSummary ==
    /\ hitting_data = <<>>
    /\ hitter_name = None
    /\ prospect_comp = None
    /\ ncaa_reply = None
    /\ summary = None
    /\ lookups = <<>>
    /\ summarized = FALSE

IdleSpray ==
    /\ direction = 0
    /\ distance = 0
    /\ spray_position = None
    /\ sprayed = FALSE

IdleCmp ==
    /\ cmp_player = None
    /\ cmp_reference = None
    /\ cmp_result = None
    /\ compared = FALSE

IdleMulti ==
    /\ tier_replies = <<>>
    /\ multi_result = None
    /\ multi_lookups = <<>>
    /\ multi_called = FALSE

IdleContact ==
    /\ contact_data = <<>>
    /\ contact_views = None
    /\ contact_called = FALSE
    /\ contact_stats = None
    /\ stats_called = FALSE

IdleConc ==
    /\ module_config = None
    /\ requests = <<>>
    /\ frames = <<>>

IdleChart ==
    /\ spray_chart_data = <<>>
    /\ spray_chart = None
    /\ chart_called = FALSE

IdleMail ==
    /\ mail_config = None
    /\ mail_input = None
    /\ smtp_outcomes = <<>>
    /\ mail_log = <<>>
    /\ mail_result = None
    /\ mail_called = FALSE

IdleBatch ==
    /\ batch_input = None
    /\ batch_attempts = <<>>
    /\ batch_response = None
    /\ batch_called = FALSE

IdleLevel ==
    /\ level_id = ""
    /\ level_filters = None
    /\ level_called = FALSE

\* every group of variables outside S is idle
IdleBut(S) ==
    /\ IF "rank" \in S THEN TRUE ELSE IdleRank
    /\ IF "summary" \in S THEN TRUE ELSE IdleSummary
    /\ IF "spray" \in S THEN TRUE ELSE IdleSpray
    /\ IF "cmp" \in S THEN TRUE ELSE IdleCmp
    /\ IF "multi" \in S THEN TRUE ELSE IdleMulti
    /\ IF "contact" \in S THEN TRUE ELSE IdleContact
    /\ IF "conc" \in S THEN TRUE ELSE IdleConc
    /\ IF "chart" \in S THEN TRUE ELSE IdleChart
    /\ IF "mail" \in S THEN TRUE ELSE IdleMail
    /\ IF "batch" \in S THEN TRUE ELSE IdleBatch
    /\ IF "level" \in S THEN TRUE ELSE IdleLevel

\* a call leaves the variables of every group outside S alone
FrameBut(S) ==
    /\ IF "rank" \in S THEN TRUE ELSE UNCHANGED rankVars
    /\ IF "summary" \in S THEN TRUE ELSE UNCHANGED summaryVars
    /\ IF "spray" \in S THEN TRUE ELSE UNCHANGED sprayVars
    /\ IF "cmp" \in S THEN TRUE ELSE UNCHANGED cmpVars
    /\ IF "multi" \in S THEN TRUE ELSE UNCHANGED multiVars
    /\ IF "contact" \in S THEN TRUE ELSE UNCHANGED contactVars
    /\ IF "conc" \in S THEN TRUE ELSE UNCHANGED concVars
    /\ IF "chart" \in S THEN TRUE ELSE UNCHANGED chartVars
    /\ IF "mail" \in S THEN TRUE ELSE UNCHANGED mailVars
    /\ IF "batch" \in S THEN TRUE ELSE UNCHANGED batchVars
    /\ IF "level" \in S THEN TRUE ELSE UNCHANGED levelVars

Init ==
    /\ hitting_data \in EventLists
    /\ hitter_name = None
    /\ prospect_comp = None
    /\ ncaa_reply = None
    /\ summary = None
    /\ lookups = <<>>
    /\ summarized = FALSE
    /\ IdleBut({"summary"})

\* One request: calculate_hitting_summary runs on the rows with a hitter name;
\* the warehouse replies are recorded only for the lookups that were made.
SummaryCall ==
    /\ ~summarized
    /\ \E name \in HitterNames, prospect \in ProspectReplies, ncaa \in NcaaReplies :
        LET out == calculate_hitting_summary(hitting_data, name, prospect, ncaa)
        IN  /\ summary' = out.ret
            /\ lookups' = out.lookups
            /\ hitter_name' = name
            /\ prospect_comp' = IF out.lookups = <<>> THEN None ELSE Some(prospect)
            /\ ncaa_reply' = IF out.lookups = <<>> THEN None ELSE Some(ncaa)
    /\ summarized' = TRUE
    /\ UNCHANGED hitting_data
    /\ FrameBut({"summary"})

Next == SummaryCall

Spec == Init /\ [][Next]_vars

---------------------------------------------------------------------------
(* Specification of the comparator *)

\* the reference list the caller holds after calculate_hitting_percentile_rank
\* returns: sorted(college_data_list) builds a new list
college_data_list_sorted_in_place(cdl) ==
    IF cdl = None THEN None ELSE Some(sorted(cdl[1]))

college_data_list_after_rank(cdl) == cdl

InitRank ==
    /\ player_value \in {None} \cup {Some(v) : v \in PlayerValues}
    /\ college_data_list \in {None} \cup {Some(p) : p \in Populations}
    /\ rank_result = None
    /\ diff_result = None
    /\ called = {}
    /\ IdleBut({"rank"})

RankCall ==
    /\ "rank" \notin called
    /\ rank_result' = calculate_hitting_percentile_rank(player_value, college_data_list)
    /\ called' = called \cup {"rank"}
    /\ college_data_list' = college_data_list_after_rank(college_data_list)
    /\ UNCHANGED <<player_value, diff_result>>
    /\ FrameBut({"rank"})

DifferenceCall ==
    /\ "difference" \notin called
    /\ diff_result' = calculate_hitting_difference_from_average_with_percentile(
                          player_value, college_data_list)
    /\ called' = called \cup {"difference"}
    /\ college_data_list' = college_data_list_after_rank(college_data_list)
    /\ UNCHANGED <<player_value, rank_result>>
    /\ FrameBut({"rank"})

NextRank == RankCall \/ DifferenceCall

SpecRank == InitRank /\ [][NextRank]_vars

---------------------------------------------------------------------------
(* Spray-position projector *)

\* Coordinates and offsets are held in millionths of a percent, radii in
\* hundredths of a percent, sines and cosines in ten-thousandths.
SinTable ==
    <<0, 175, 349, 523, 698, 872, 1045, 1219, 1392, 1564, 1736, 1908, 2079,
      2250, 2419, 2588, 2756, 2924, 3090, 3256, 3420, 3584, 3746, 3907, 4067,
      4226, 4384, 4540, 4695, 4848, 5000, 5150, 5299, 5446, 5592, 5736, 5878,
      6018, 6157, 6293, 6428, 6561, 6691, 6820, 6947, 7071>>

CosTable ==
    <<10000, 9998, 9994, 9986, 9976, 9962, 9945, 9925, 9903, 9877, 9848, 9816,
      9781, 9744, 9703, 9659, 9613, 9563, 9511, 9455, 9397, 9336, 9272, 9205,
      9135, 9063, 8988, 8910, 8829, 8746, 8660, 8572, 8480, 8387, 8290, 8192,
      8090, 7986, 7880, 7771, 7660, 7547, 7431, 7314, 7193, 7071>>

\* math.sin(math.radians(deg)) and math.cos(math.radians(deg)), -45 <= deg <= 45
sin_deg(deg) == IF deg < 0 THEN -SinTable[1 - deg] ELSE SinTable[deg + 1]

cos_deg(deg) == CosTable[Abs(deg) + 1]

Min2(a, b) == IF a <= b THEN a ELSE b

Max2(a, b) == IF a >= b THEN a ELSE b

\* the five distance bands, in hundredths of a percent
radius_percent_uncapped(d) ==
    IF d <= 100 THEN 15 * d
    ELSE IF d <= 200 THEN 1500 + 15 * (d - 100)
    ELSE IF d <= 300 THEN 3000 + 15 * (d - 200)
    ELSE IF d <= 400 THEN 4500 + 15 * (d - 300)
    ELSE 6000 + (d - 400) * 10

radius_percent(d) ==
    IF d <= 100 THEN 15 * d
    ELSE IF d <= 200 THEN 1500 + 15 * (d - 100)
    ELSE IF d <= 300 THEN 3000 + 15 * (d - 200)
    ELSE IF d <= 400 THEN 4500 + 15 * (d - 300)
    ELSE 6000 + Min2(d - 400, 100) * 10

\* max(5, min(95, x)), in millionths of a percent
clamp_visible_high_only(x) == Min2(95000000, x)

clamp_visible(x) == Max2(5000000, Min2(95000000, x))

calculate_spray_position(dir, dist) ==
    LET field_direction == Max2(-45, Min2(45, dir))
        radius == radius_percent(dist)
        x_offset == sin_deg(field_direction) * radius
        y_offset == cos_deg(field_direction) * radius
        x_percent == 50000000 + x_offset
        y_percent == 85000000 - y_offset
    IN  <<clamp_visible(x_percent), clamp_visible(y_percent)>>

Directions == {-90, -50, -45, -44, -30, -15, -1, 0, 1, 15, 30, 44, 45, 50, 90}

Distances == (-20..MaxDistance) \cup {-1000, 10000}

InitSpray ==
    /\ direction \in Directions
    /\ distance \in Distances
    /\ spray_position = None
    /\ sprayed = FALSE
    /\ IdleBut({"spray"})

SprayCall ==
    /\ ~sprayed
    /\ spray_position' = Some(calculate_spray_position(direction, distance))
    /\ sprayed' = TRUE
    /\ UNCHANGED <<direction, distance>>
    /\ FrameBut({"spray"})

NextSpray == SprayCall

SpecSpray == InitSpray /\ [][NextSpray]_vars

---------------------------------------------------------------------------
(* Multi-level sweep *)

\* values of one column of the result rows that are not NULL
NonNullColumn(rows, k) ==
    LET present == SelectSeq(rows, LAMBDA row : row[k] # None)
    IN  [i \in 1..Len(present) |-> present[i][k][1]]

\* get_college_hitting_percentile_data: the per-metric value lists of a tier,
\* None when a query raises or when every list is empty.
get_college_hitting_percentile_data_fallback(comparison_level, reply) ==
    IF reply.raised \/ (reply.rows = <<>> /\ reply.max_rows = <<>>)
    THEN Some([avg_exit_velo |-> <<85, 90>>, percentile_90_exit_velo |-> <<98, 101>>,
               max_exit_velo |-> <<100, 105>>, barrel_rate |-> <<5, 12>>,
               hardhit_rate |-> <<20, 33>>])
    ELSE Some([avg_exit_velo |-> NonNullColumn(reply.rows, "avg_exit_velo"),
               percentile_90_exit_velo |-> NonNullColumn(reply.rows, "percentile_90_exit_velo"),
               max_exit_velo |-> NonNullColumn(reply.max_rows, "max_exit_velo"),
               barrel_rate |-> NonNullColumn(reply.rows, "barrel_rate"),
               hardhit_rate |-> NonNullColumn(reply.rows, "hardhit_rate")])

get_college_hitting_percentile_data(comparison_level, reply) ==
    IF reply.raised THEN None
    ELSE LET data ==
                [avg_exit_velo |-> NonNullColumn(reply.rows, "avg_exit_velo"),
                 percentile_90_exit_velo |->
                     NonNullColumn(reply.rows, "percentile_90_exit_velo"),
                 max_exit_velo |-> NonNullColumn(reply.max_rows, "max_exit_velo"),
                 barrel_rate |-> NonNullColumn(reply.rows, "barrel_rate"),
                 hardhit_rate |-> NonNullColumn(reply.rows, "hardhit_rate")]
             has_data == \E k \in DOMAIN data : data[k] # <<>>
         IN  IF has_data THEN Some(data) ELSE None

\* the player's five metrics as get_multi_level_hitting_comparisons computes
\* them (unrounded)
player_metrics_strictly_above(batted_balls) ==
    LET exit_velocities == [i \in 1..Len(batted_balls) |-> batted_balls[i].ExitSpeed[1]]
        sorted_velocities == sorted(exit_velocities)
        percentile_90_index_ == (9 * Len(sorted_velocities)) \div 10
        hard_hits == Cardinality({i \in 1..Len(batted_balls) :
                                    batted_balls[i].ExitSpeed[1] > 95})
        barrels == Cardinality({i \in 1..Len(batted_balls) :
                        /\ batted_balls[i].ExitSpeed[1] > 95
                        /\ batted_balls[i].Angle # None
                        /\ 8 <= batted_balls[i].Angle[1]
                        /\ batted_balls[i].Angle[1] <= 32})
        total_balls_with_ev == Len(batted_balls)
    IN  [avg_exit_velo |-> Rat(SumSeq(exit_velocities), Len(exit_velocities)),
         percentile_90_ev |-> Rat(sorted_velocities[percentile_90_index_ + 1], 1),
         max_exit_velo |-> Rat(MaxOf(exit_velocities), 1),
         barrel_rate |-> Rat(barrels * 100, total_balls_with_ev),
         hardhit_rate |-> Rat(hard_hits * 100, total_balls_with_ev)]

player_metrics(batted_balls) ==
    LET exit_velocities == [i \in 1..Len(batted_balls) |-> batted_balls[i].ExitSpeed[1]]
        sorted_velocities == sorted(exit_velocities)
        percentile_90_index_ == (9 * Len(sorted_velocities)) \div 10
        hard_hits == Cardinality({i \in 1..Len(batted_balls) :
                                    batted_balls[i].ExitSpeed[1] >= 95})
        barrels == Cardinality({i \in 1..Len(batted_balls) :
                        /\ batted_balls[i].ExitSpeed[1] >= 95
                        /\ batted_balls[i].Angle # None
                        /\ 8 <= batted_balls[i].Angle[1]
                        /\ batted_balls[i].Angle[1] <= 32})
        total_balls_with_ev == Len(batted_balls)
    IN  [avg_exit_velo |-> Rat(SumSeq(exit_velocities), Len(exit_velocities)),
         percentile_90_ev |-> Rat(sorted_velocities[percentile_90_index_ + 1], 1),
         max_exit_velo |-> Rat(MaxOf(exit_velocities), 1),
         barrel_rate |-> Rat(barrels * 100, total_balls_with_ev),
         hardhit_rate |-> Rat(hard_hits * 100, total_balls_with_ev)]

\* the wrapper applied to an unrounded player value and a list of reference
\* values: both sides of each comparison are taken on the denominator of the
\* player value
percentile_comparison(pv, college_data, k) ==
    calculate_hitting_difference_from_average_with_percentile(
        Some(pv.n),
        IF college_data = None THEN None
        ELSE Some([i \in 1..Len(college_data[1][k]) |-> college_data[1][k][i] * pv.d]))

\* formatted strings: 'N/A', or a number printed with a fixed number of decimals
NotAvailable == [na |-> TRUE, value |-> 0]

Formatted(v) == [na |-> FALSE, value |-> v]

\* f"{tenths / 10:.0f}": the nearest integer, an exact half going to the even one
Round0_truncating(tenths) == tenths \div 10

Round0(tenths) ==
    LET q == tenths \div 10
        r == tenths % 10
    IN  IF r > 5 \/ (r = 5 /\ q % 2 = 1) THEN q + 1 ELSE q

levels == <<"D1", "D2", "D3">>

\* key of the output entry -> key of the reference dictionaries
reference_key(metric) ==
    IF metric = "percentile_90_ev" THEN "percentile_90_exit_velo" ELSE metric

MetricNames == {"avg_exit_velo", "percentile_90_ev", "max_exit_velo", "barrel_rate",
                "hardhit_rate"}

\* one pass of the loop over the levels: the two lookups of a level and its
\* five output entries
level_entry(player, level, replies) ==
    LET college_data == get_college_hitting_percentile_data(level, replies[level].percentiles)
        college_averages == get_college_hitting_averages(level, replies[level].averages)
    IN  [metric \in MetricNames |->
            LET diff == percentile_comparison(player[metric], college_data,
                                              reference_key(metric))
            IN  [college_avg |->
                    IF college_averages # None
                       /\ college_averages[1][reference_key(metric)] # None
                    THEN Formatted(Round1(college_averages[1][reference_key(metric)][1].n,
                                          college_averages[1][reference_key(metric)][1].d))
                    ELSE NotAvailable,
                 comparison |-> diff,
                 difference |-> IF diff # None THEN Formatted(Round0(diff[1].difference))
                                ELSE NotAvailable]]

level_lookups(level) ==
    <<[fn |-> "get_college_hitting_percentile_data", arg |-> level],
      [fn |-> "get_college_hitting_averages", arg |-> level]>>

RECURSIVE ConcatAll(_)
ConcatAll(ss) == IF ss = <<>> THEN <<>> ELSE ss[1] \o ConcatAll(Tail(ss))

\* get_multi_level_hitting_comparisons(hitting_data, hitter_name) with the
\* warehouse replies; ret is the returned value, lookups the lookups made.
get_multi_level_hitting_comparisons(hd, name, prospect, replies) ==
    LET batted_balls == SelectSeq(hd, usable)
    IN  IF batted_balls = <<>> THEN [ret |-> None, lookups |-> <<>>]
        ELSE
          LET player == player_metrics(batted_balls)
              named == name # None /\ name # Some("")
              hitter_comparison_level ==
                  IF named THEN get_hitter_competition_level(prospect) ELSE "D1"
          IN  [ret |-> Some(
                  [player_avg_exit_velo |->
                       Round1(player.avg_exit_velo.n, player.avg_exit_velo.d),
                   player_percentile_90_ev |->
                       Round1(player.percentile_90_ev.n, player.percentile_90_ev.d),
                   player_max_exit_velo |->
                       Round1(player.max_exit_velo.n, player.max_exit_velo.d),
                   player_barrel_rate |->
                       Round1(player.barrel_rate.n, player.barrel_rate.d),
                   player_hardhit_rate |->
                       Round1(player.hardhit_rate.n, player.hardhit_rate.d),
                   level_comparisons |->
                       [level \in Range(levels) |-> level_entry(player, level, replies)],
                   comparison_level |-> hitter_comparison_level]),
               lookups |->
                  (IF named THEN <<[fn |-> "get_hitter_competition_level", arg |-> name[1]]>>
                   ELSE <<>>)
                  \o ConcatAll([i \in 1..Len(levels) |-> level_lookups(levels[i])])]

---------------------------------------------------------------------------
(* Inputs and specification of the multi-level sweep *)

PctRow(a, p, b, h) ==
    [avg_exit_velo |-> a, percentile_90_exit_velo |-> p, barrel_rate |-> b,
     hardhit_rate |-> h]

PctRaise == [raised |-> TRUE, rows |-> <<>>, max_rows |-> <<>>]

PctEmpty == [raised |-> FALSE, rows |-> <<>>, max_rows |-> <<>>]

PctData ==
    [raised |-> FALSE,
     rows |-> <<PctRow(Some(96), Some(104), Some(67), Some(70)),
                PctRow(Some(85), Some(98), None, Some(20)),
                PctRow(Some(90), Some(100), Some(12), Some(33)),
                PctRow(Some(88), Some(101), Some(5), Some(30))>>,
     max_rows |-> <<[max_exit_velo |-> Some(105)], [max_exit_velo |-> None],
                    [max_exit_velo |-> Some(97)], [max_exit_velo |-> Some(99)]>>]

PctDataLow ==
    [raised |-> FALSE,
     rows |-> <<PctRow(Some(80), Some(90), Some(0), Some(10)),
                PctRow(Some(99), Some(95), Some(50), Some(100))>>,
     max_rows |-> <<[max_exit_velo |-> Some(96)], [max_exit_velo |-> Some(99)]>>]

TierGood == [averages |-> NcaaData, percentiles |-> PctData]

TierReplyOptions ==
    {[averages |-> NcaaRaise, percentiles |-> PctRaise],
     [averages |-> NcaaNoData, percentiles |-> PctEmpty],
     TierGood,
     [averages |-> NcaaDataNoBarrels, percentiles |-> PctDataLow],
     [averages |-> NcaaData, percentiles |-> PctRaise]}

MultiEventLists ==
    SeqsUpTo(EventPool, 1) \cup {ExampleEvents, BlockEvents(MaxLongEvents - 1, 1, 10)}

InitMulti ==
    /\ hitting_data \in MultiEventLists
    /\ tier_replies \in [Range(levels) -> TierReplyOptions]
    /\ hitter_name = None
    /\ prospect_comp = None
    /\ ncaa_reply = None
    /\ summary = None
    /\ lookups = <<>>
    /\ summarized = FALSE
    /\ multi_result = None
    /\ multi_lookups = <<>>
    /\ multi_called = FALSE
    /\ IdleBut({"summary", "multi"})

\* One request: the sweep runs on the rows with a hitter name.
MultiLevelCall ==
    /\ ~multi_called
    /\ \E name \in HitterNames, prospect \in ProspectReplies :
        LET out == get_multi_level_hitting_comparisons(hitting_data, name, prospect,
                                                       tier_replies)
            asked == \E i \in DOMAIN out.lookups :
                        out.lookups[i].fn = "get_hitter_competition_level"
        IN  /\ multi_result' = out.ret
            /\ multi_lookups' = out.lookups
            /\ hitter_name' = name
            /\ prospect_comp' = IF asked THEN Some(prospect) ELSE None
    /\ multi_called' = TRUE
    /\ UNCHANGED <<hitting_data, ncaa_reply, summary, lookups, summarized, tier_replies>>
    /\ FrameBut({"summary", "multi"})

NextMulti == MultiLevelCall

SpecMulti == InitMulti /\ [][NextMulti]_vars

---------------------------------------------------------------------------
(* Contact-point projector.  Contact positions are hundredths of a foot, so
   inches are held in hundredths of an inch; plot coordinates are exact
   rationals. *)

\* the spray chart's bands used for the contact points
get_contact_type_spray_bands(contact) ==
    IF contact.Angle = None THEN "unknown"
    ELSE IF contact.Angle[1] < 10 THEN "ground-ball"
    ELSE IF contact.Angle[1] <= 25
         THEN IF contact.ExitSpeed = None THEN "TypeError"
              ELSE IF contact.ExitSpeed[1] >= 95 THEN "barrel" ELSE "line-drive"
    ELSE "fly-ball"

\* get_contact_type: the label of a contact; "TypeError" stands for the
\* exception raised by None >= 95
get_contact_type(contact) ==
    IF contact.Angle = None THEN "unknown"
    ELSE IF contact.Angle[1] < 8 THEN "ground-ball"
    ELSE IF contact.Angle[1] <= 32
         THEN IF contact.ExitSpeed = None THEN "TypeError"
              ELSE IF contact.ExitSpeed[1] >= 95 THEN "barrel" ELSE "line-drive"
    ELSE "fly-ball"

\* max(lo, min(hi, r)) for a rational r and integers lo, hi
RatClamp(lo, hi, r) ==
    IF r.n > hi * r.d THEN Rat(hi, 1)
    ELSE IF r.n < lo * r.d THEN Rat(lo, 1)
    ELSE r

MinOf(s) == CHOOSE x \in Range(s) : \A y \in Range(s) : x <= y

\* feet to inches
inches(feet) == feet * 12

\* one point of the side view, for the i-th valid contact
side_view_point_clamped_depth(contact, i, y_min, y_max) ==
    LET y_pos == inches(contact.ContactPositionY[1])
        z_pos == inches(contact.ContactPositionZ[1])
        svg_x == Rat(15 * 4200 + (2500 - z_pos) * 350, 4200)
        y_range_data == y_max - y_min
        svg_y == IF y_range_data > 0
                 THEN Rat(275 * y_range_data - (y_pos - y_min) * 150, y_range_data)
                 ELSE Rat(200, 1)
    IN  [label |-> i,
         svg_x |-> RatClamp(15, 365, svg_x),
         svg_y |-> RatClamp(110, 285, svg_y),
         contact_type |-> get_contact_type(contact),
         is_in_zone |-> (0 >= z_pos /\ z_pos >= -1700),
         shape |-> IF contact.ExitSpeed = None THEN "TypeError"
                   ELSE IF contact.ExitSpeed[1] >= 95 THEN "rect" ELSE "circle"]

side_view_point(contact, i, y_min, y_max) ==
    LET y_pos == inches(contact.ContactPositionY[1])
        z_pos == inches(contact.ContactPositionZ[1])
        svg_x == Rat(15 * 4200 + (2500 - z_pos) * 350, 4200)
        y_range_data == y_max - y_min
        svg_y == IF y_range_data > 0
                 THEN Rat(275 * y_range_data - (y_pos - y_min) * 150, y_range_data)
                 ELSE Rat(200, 1)
    IN  [label |-> i,
         svg_x |-> svg_x,
         svg_y |-> RatClamp(110, 285, svg_y),
         contact_type |-> get_contact_type(contact),
         is_in_zone |-> (0 >= z_pos /\ z_pos >= -1700),
         shape |-> IF contact.ExitSpeed = None THEN "TypeError"
                   ELSE IF contact.ExitSpeed[1] >= 95 THEN "rect" ELSE "circle"]

\* one point of the overhead view, for the i-th contact of the input
overhead_view_point_zero_based(contact, i) ==
    LET x_inches == inches(contact.ContactPositionX[1])
        z_inches == inches(contact.ContactPositionZ[1])
        x_percent == Rat((x_inches + 1800) * 80 + 10 * 3600, 3600)
        z_percent == Rat((z_inches + 1700) * 80 + 10 * 3400, 3400)
    IN  [label |-> i - 1,
         x_percent |-> RatClamp(5, 95, x_percent),
         z_percent |-> RatClamp(5, 95, z_percent),
         contact_type |-> get_contact_type(contact),
         shape |-> IF contact.ContactPositionY = None THEN "TypeError" ELSE "div"]

overhead_view_point(contact, i) ==
    LET x_inches == inches(contact.ContactPositionX[1])
        z_inches == inches(contact.ContactPositionZ[1])
        x_percent == Rat((x_inches + 1800) * 80 + 10 * 3600, 3600)
        z_percent == Rat((z_inches + 1700) * 80 + 10 * 3400, 3400)
    IN  [label |-> i,
         x_percent |-> RatClamp(5, 95, x_percent),
         z_percent |-> RatClamp(5, 95, z_percent),
         contact_type |-> get_contact_type(contact),
         shape |-> IF contact.ContactPositionY = None THEN "TypeError" ELSE "div"]

PointRaises(p) == p.contact_type = "TypeError" \/ p.shape = "TypeError"

EmptyViews == [raised |-> FALSE, side |-> <<>>, overhead |-> <<>>]

\* indices of the elements of a sequence that satisfy a test, in order
RECURSIVE IndicesFrom(_, _, _)
IndicesFrom(s, Test(_), i) ==
    IF i > Len(s) THEN <<>>
    ELSE (IF Test(s[i]) THEN <<i>> ELSE <<>>) \o IndicesFrom(s, Test, i + 1)

\* generate_contact_points_html(contact_data): the two views as sequences of
\* points, or raised when building a point raises
generate_contact_points_html(cd) ==
    LET valid_contacts ==
            SelectSeq(cd, LAMBDA c : c.ContactPositionY # None /\ c.ContactPositionZ # None)
    IN  IF cd = <<>> \/ valid_contacts = <<>> THEN EmptyViews
        ELSE
          LET y_values == [i \in 1..Len(valid_contacts) |->
                              inches(valid_contacts[i].ContactPositionY[1])]
              y_min == MinOf(y_values) - 300
              y_max == MaxOf(y_values) + 300
              side == [i \in 1..Len(valid_contacts) |->
                          side_view_point(valid_contacts[i], i, y_min, y_max)]
              x_values == SelectSeq(cd, LAMBDA c : c.ContactPositionX # None)
              plotted == IF x_values = <<>> THEN <<>>
                         ELSE IndicesFrom(cd, LAMBDA c : c.ContactPositionX # None
                                                     /\ c.ContactPositionZ # None, 1)
              overhead == [j \in 1..Len(plotted) |->
                              overhead_view_point(cd[plotted[j]], plotted[j])]
          IN  IF \/ \E i \in DOMAIN side : PointRaises(side[i])
                 \/ \E j \in DOMAIN overhead : PointRaises(overhead[j])
              THEN [raised |-> TRUE, side |-> <<>>, overhead |-> <<>>]
              ELSE [raised |-> FALSE, side |-> side, overhead |-> overhead]

---------------------------------------------------------------------------
(* Contact statistics.  Positions are hundredths of a foot; the averages
   rounded to 2 decimals are integers in that unit. *)

\* the non-null values of one field of the records
NonNullField(cd, k) ==
    LET present == SelectSeq(cd, LAMBDA c : c[k] # None)
    IN  [i \in 1..Len(present) |-> present[i][k][1]]

SumSquares(s) == SumSeq([i \in 1..Len(s) |-> s[i] * s[i]])

\* round(statistics.stdev(ys), 2) < limit, for a limit given in feet:
\* stdev < limit - 0.005, compared on the squares (4 n(n-1) variance against
\* (200 limit - 1)^2 n(n-1), in hundredths of a foot)
stdev_rounds_below(ys, limit) ==
    LET n == Len(ys)
    IN  4 * (n * SumSquares(ys) - SumSeq(ys) * SumSeq(ys))
            < (200 * limit - 1) * (200 * limit - 1) * n * (n - 1)

\* calculate_contact_stats(contact_data): None without records or without any
\* side position, raised when the side positions exist but a record list of
\* heights or depths is empty (division by zero)
calculate_contact_stats(cd) ==
    LET x_positions == NonNullField(cd, "ContactPositionX")
        y_positions == NonNullField(cd, "ContactPositionY")
        z_positions == NonNullField(cd, "ContactPositionZ")
    IN  IF cd = <<>> \/ x_positions = <<>> THEN [raised |-> FALSE, value |-> None]
        ELSE IF y_positions = <<>> \/ z_positions = <<>>
        THEN [raised |-> TRUE, value |-> None]
        ELSE
          LET avg_x == RoundInt(SumSeq(x_positions), Len(x_positions))
              avg_y == RoundInt(SumSeq(y_positions), Len(y_positions))
              avg_z == RoundInt(SumSeq(z_positions), Len(z_positions))
              primary_zone == IF avg_y > 300 THEN "Deep"
                              ELSE IF avg_y > -300 THEN "Optimal"
                              ELSE "Early"
              consistency == IF Len(y_positions) < 2 THEN "N/A"
                             ELSE IF stdev_rounds_below(y_positions, 2) THEN "Excellent"
                             ELSE IF stdev_rounds_below(y_positions, 4) THEN "Good"
                             ELSE "Needs Work"
          IN  [raised |-> FALSE,
               value |-> Some([avg_side |-> Round1(avg_x, 100),
                               avg_depth |-> Round1(avg_y, 100),
                               avg_height |-> Round1(avg_z, 100),
                               total_contacts |-> Len(cd),
                               primary_zone |-> primary_zone,
                               consistency |-> consistency,
                               raw_avg_x |-> avg_x,
                               raw_avg_y |-> avg_y,
                               raw_avg_z |-> avg_z])]

---------------------------------------------------------------------------
(* Inputs and specification of the contact-point projector *)

Contact(x, y, z, es, an) ==
    [ContactPositionX |-> x, ContactPositionY |-> y, ContactPositionZ |-> z,
     ExitSpeed |-> es, Angle |-> an]

\* contact positions <<X, Y, Z>> in hundredths of a foot
ContactPositions ==
    {<<Some(10), Some(250), Some(-50)>>,
     <<Some(-150), Some(200), Some(300)>>,
     <<Some(150), Some(250), Some(-400)>>,
     <<Some(300), Some(100), Some(0)>>,
     <<None, Some(250), Some(-50)>>,
     <<Some(10), None, Some(-50)>>}

\* <<ExitSpeed, Angle>> of a contact
ContactBalls ==
    {<<Some(100), Some(20)>>, <<Some(90), Some(20)>>, <<None, Some(20)>>,
     <<None, None>>, <<Some(100), None>>, <<Some(95), Some(8)>>,
     <<Some(100), Some(7)>>, <<Some(100), Some(33)>>, <<Some(94), Some(32)>>}

ContactPool ==
    {Contact(p[1], p[2], p[3], b[1], b[2]) : p \in ContactPositions, b \in ContactBalls}

ContactLists == SeqsUpTo(ContactPool, MaxEvents)

InitContact ==
    /\ contact_data \in ContactLists
    /\ contact_views = None
    /\ contact_called = FALSE
    /\ contact_stats = None
    /\ stats_called = FALSE
    /\ IdleBut({"contact"})

ContactPointsCall ==
    /\ ~contact_called
    /\ contact_views' = Some(generate_contact_points_html(contact_data))
    /\ contact_called' = TRUE
    /\ UNCHANGED <<contact_data, contact_stats, stats_called>>
    /\ FrameBut({"contact"})

ContactStatsCall ==
    /\ ~stats_called
    /\ contact_stats' = Some(calculate_contact_stats(contact_data))
    /\ stats_called' = TRUE
    /\ UNCHANGED <<contact_data, contact_views, contact_called>>
    /\ FrameBut({"contact"})

NextContact == ContactPointsCall \/ ContactStatsCall

SpecContact == InitContact /\ [][NextContact]_vars

---------------------------------------------------------------------------
(* Two report requests running concurrently.  A request is one call of
   send_hitter_email; its steps are the credential check, the two lookups of
   calculate_hitting_summary, the summary, the contact points and the mail
   delivery.  Each request keeps its local variables in its own frame. *)

Requests == {1, 2}

\* the frame that holds the local variables of a request
frame_of_shared(r) == 1

frame_of(r) == r

\* client.query(...) raises inside the lookup's try block when the module's
\* client is None
warehouse_reply(config, reply, raised_reply) ==
    IF config.client = None THEN raised_reply ELSE reply

credentials_configured(config) ==
    config.EMAIL_USERNAME # "" /\ config.EMAIL_PASSWORD # ""

\* generate_hitter_pdf: the contact records of the rows that have a contact
\* position, with the rows' exit speed and angle
contact_data_of(hd, positions) ==
    LET kept == IndicesFrom(positions, LAMBDA p : p[1] # None /\ p[2] # None /\ p[3] # None, 1)
    IN  [j \in 1..Len(kept) |->
            Contact(positions[kept[j]][1], positions[kept[j]][2], positions[kept[j]][3],
                    hd[kept[j]].ExitSpeed, hd[kept[j]].Angle)]

NoResult == [summary |-> None, views |-> None, sent |-> FALSE]

\* the result of a request that runs alone
send_hitter_email_alone(in, config) ==
    IF ~credentials_configured(config) THEN NoResult
    ELSE
      LET summary_stats ==
              calculate_hitting_summary(
                  in.hitting_data, in.hitter_name,
                  warehouse_reply(config, in.prospect, [raised |-> TRUE, rows |-> <<>>]),
                  warehouse_reply(config, in.ncaa, NcaaRaise)).ret
          views == generate_contact_points_html(
                       contact_data_of(in.hitting_data, in.positions))
      IN  IF summary_stats = None THEN NoResult
          ELSE [summary |-> summary_stats,
                views |-> Some(views),
                sent |-> ~views.raised /\ in.smtp_ok]

---------------------------------------------------------------------------
(* Inputs and specification of the concurrent requests *)

RequestInput(hd, name, prospect, ncaa, positions, smtp_ok) ==
    [hitting_data |-> hd, hitter_name |-> name, prospect |-> prospect, ncaa |-> ncaa,
     positions |-> positions, smtp_ok |-> smtp_ok]

InZone == <<Some(10), Some(250), Some(-50)>>

NoContact == <<None, None, None>>

RequestInputs ==
    {RequestInput(ExampleEvents, Some("Ann"),
                  [raised |-> FALSE, rows |-> <<[Comp |-> Some("D2")]>>], NcaaData,
                  <<InZone, NoContact, InZone>>, TRUE),
     RequestInput(<<Ev(Some(96), Some(15))>>, Some("Ann"),
                  [raised |-> FALSE, rows |-> <<>>], NcaaDataNoBarrels,
                  <<InZone>>, TRUE),
     RequestInput(<<Ev(Some(90), Some(5)), Ev(None, Some(20))>>, Some("Ann"),
                  [raised |-> FALSE, rows |-> <<>>], NcaaNoData,
                  <<NoContact, InZone>>, TRUE),
     RequestInput(<<Ev(None, Some(20))>>, Some("Ann"),
                  [raised |-> FALSE, rows |-> <<[Comp |-> Some("D2")]>>], NcaaData,
                  <<NoContact>>, TRUE),
     RequestInput(<<>>, Some("Ann"),
                  [raised |-> FALSE, rows |-> <<>>], NcaaData, <<>>, TRUE),
     RequestInput(ExampleEvents, Some(""),
                  [raised |-> FALSE, rows |-> <<>>], NcaaData,
                  <<InZone, InZone, InZone>>, FALSE)}

ModuleConfigs ==
    {[client |-> Some("bigquery.Client"), EMAIL_USERNAME |-> "coach", EMAIL_PASSWORD |-> "secret"],
     [client |-> None, EMAIL_USERNAME |-> "coach", EMAIL_PASSWORD |-> "secret"],
     [client |-> Some("bigquery.Client"), EMAIL_USERNAME |-> "", EMAIL_PASSWORD |-> ""]}

NoLocals == [comparison_level |-> None, college_averages |-> None]

InitConcurrent ==
    /\ module_config \in ModuleConfigs
    /\ \E in \in [Requests -> RequestInputs] :
          requests = [r \in Requests |-> [pc |-> "start", in |-> in[r], out |-> NoResult]]
    /\ frames = [r \in Requests |-> NoLocals]
    /\ IdleBut({"conc"})

Finish(r, out) == requests' = [requests EXCEPT ![r].pc = "done", ![r].out = out]

Goto(r, pc) == requests' = [requests EXCEPT ![r].pc = pc]

\* send_hitter_email up to the first lookup of calculate_hitting_summary
Begin(r) ==
    LET in == requests[r].in
    IN  /\ requests[r].pc = "start"
        /\ IF ~credentials_configured(module_config) \/ in.hitting_data = <<>>
           THEN Finish(r, NoResult) /\ UNCHANGED frames
           ELSE IF balls_with_ev_of(in.hitting_data) = <<>>
           THEN /\ requests' = [requests EXCEPT ![r].pc = "contact",
                                                ![r].out.summary = Some(zero_summary)]
                /\ UNCHANGED frames
           ELSE /\ frames' = [frames EXCEPT ![frame_of(r)] = NoLocals]
                /\ IF in.hitter_name # None /\ in.hitter_name # Some("")
                   THEN Goto(r, "level") ELSE Goto(r, "summary")
        /\ UNCHANGED module_config
        /\ FrameBut({"conc"})

\* comparison_level = get_hitter_competition_level(hitter_name)
LevelLookup(r) ==
    /\ requests[r].pc = "level"
    /\ frames' = [frames EXCEPT ![frame_of(r)].comparison_level =
                      Some(get_hitter_competition_level(
                               warehouse_reply(module_config, requests[r].in.prospect,
                                               [raised |-> TRUE, rows |-> <<>>])))]
    /\ Goto(r, "averages")
    /\ UNCHANGED module_config
    /\ FrameBut({"conc"})

\* college_averages = get_college_hitting_averages(comparison_level)
AveragesLookup(r) ==
    /\ requests[r].pc = "averages"
    /\ frames' = [frames EXCEPT ![frame_of(r)].college_averages =
                      get_college_hitting_averages(
                          frames[frame_of(r)].comparison_level[1],
                          warehouse_reply(module_config, requests[r].in.ncaa, NcaaRaise))]
    /\ Goto(r, "summary")
    /\ UNCHANGED module_config
    /\ FrameBut({"conc"})

\* the rest of calculate_hitting_summary, from the locals of the frame
BuildSummary(r) ==
    LET in == requests[r].in
        locals == frames[frame_of(r)]
    IN  /\ requests[r].pc = "summary"
        /\ requests' = [requests EXCEPT
              ![r].pc = "contact",
              ![r].out.summary =
                  summary_with_reference(
                      in.hitting_data, balls_with_ev_of(in.hitting_data),
                      [comparison_level |-> locals.comparison_level,
                       college_averages |-> locals.college_averages, log |-> <<>>])]
        /\ UNCHANGED <<module_config, frames>>
        /\ FrameBut({"conc"})

\* generate_hitter_pdf: the contact points; an exception ends the request
\* without a document
ContactPoints(r) ==
    LET in == requests[r].in
        views == generate_contact_points_html(contact_data_of(in.hitting_data, in.positions))
    IN  /\ requests[r].pc = "contact"
        /\ requests' = [requests EXCEPT ![r].pc = IF views.raised THEN "done" ELSE "mail",
                                        ![r].out.views = Some(views)]
        /\ UNCHANGED <<module_config, frames>>
        /\ FrameBut({"conc"})

\* the SMTP configurations are tried; smtp_ok tells whether one of them accepts
Deliver(r) ==
    /\ requests[r].pc = "mail"
    /\ requests' = [requests EXCEPT ![r].pc = "done", ![r].out.sent = requests[r].in.smtp_ok]
    /\ UNCHANGED <<module_config, frames>>
    /\ FrameBut({"conc"})

NextConcurrent ==
    \E r \in Requests :
        \/ Begin(r)
        \/ LevelLookup(r)
        \/ AveragesLookup(r)
        \/ BuildSummary(r)
        \/ ContactPoints(r)
        \/ Deliver(r)

SpecConcurrent == InitConcurrent /\ [][NextConcurrent]_vars

---------------------------------------------------------------------------
(* Spray chart *)

\* the record is plotted: direction and distance are known and distance > 0
spray_qualifies(hit) ==
    hit.Direction # None /\ hit.Distance # None /\ hit.Distance[1] > 0

\* the tag of a plotted ball, from its launch angle
spray_ball_type_contact_bands(hit) ==
    IF hit.Angle = None THEN "foul"
    ELSE IF hit.Angle[1] < 8 THEN "ground-ball"
    ELSE IF hit.Angle[1] <= 32 THEN "line-drive"
    ELSE "fly-ball"

spray_ball_type(hit) ==
    IF hit.Angle = None THEN "foul"
    ELSE IF hit.Angle[1] < 10 THEN "ground-ball"
    ELSE IF hit.Angle[1] <= 25 THEN "line-drive"
    ELSE "fly-ball"

CountOf(s, Test(_)) == Cardinality({i \in DOMAIN s : Test(s[i])})

\* generate_spray_chart_html(spray_chart_data): the plotted balls, in list
\* order, and the statistics; no balls and an empty dictionary for an empty list
generate_spray_chart_html(data) ==
    IF data = <<>> THEN [balls |-> <<>>, stats |-> None]
    ELSE
      LET plotted == IndicesFrom(data, spray_qualifies, 1)
          balls == [j \in 1..Len(plotted) |->
                      [label |-> plotted[j],
                       position |-> calculate_spray_position(data[plotted[j]].Direction[1],
                                                             data[plotted[j]].Distance[1]),
                       ball_type |-> spray_ball_type(data[plotted[j]])]]
          distances == [j \in 1..Len(plotted) |-> data[plotted[j]].Distance[1]]
          pull_count == CountOf(data, LAMBDA h : spray_qualifies(h) /\ h.Direction[1] < -5)
          opposite_count == CountOf(data, LAMBDA h : spray_qualifies(h) /\ h.Direction[1] > 5)
          total_directional ==
              pull_count + opposite_count + (Len(data) - pull_count - opposite_count)
          valid_distance_count == Len(plotted)
      IN  [balls |-> balls,
           stats |-> Some(
              [pull_percentage |-> IF total_directional > 0
                                   THEN RoundInt(pull_count * 100, total_directional) ELSE 0,
               opposite_percentage |-> IF total_directional > 0
                                       THEN RoundInt(opposite_count * 100, total_directional)
                                       ELSE 0,
               ground_balls |-> CountOf(balls, LAMBDA b : b.ball_type = "ground-ball"),
               line_drives |-> CountOf(balls, LAMBDA b : b.ball_type = "line-drive"),
               fly_balls |-> CountOf(balls, LAMBDA b : b.ball_type = "fly-ball"),
               avg_distance |-> IF valid_distance_count > 0
                                THEN RoundInt(SumSeq(distances), valid_distance_count) ELSE 0,
               max_distance |-> IF distances = <<>> THEN 0 ELSE MaxOf(distances),
               long_hits |-> CountOf(distances, LAMBDA x : x >= 300)])]

SprayHit(dir, dist, an) == [Direction |-> dir, Distance |-> dist, Angle |-> an]

SprayPool ==
    {SprayHit(Some(-30), Some(320), Some(30)), SprayHit(Some(-6), Some(150), Some(9)),
     SprayHit(Some(-5), Some(300), Some(10)), SprayHit(Some(5), Some(299), Some(25)),
     SprayHit(Some(6), Some(101), Some(26)), SprayHit(Some(44), Some(400), None),
     SprayHit(Some(0), Some(0), Some(15)), SprayHit(None, Some(200), Some(15)),
     SprayHit(Some(20), None, Some(15)), SprayHit(Some(-20), Some(-5), Some(5))}

SprayLists == SeqsUpTo(SprayPool, MaxEvents)

InitChart ==
    /\ spray_chart_data \in SprayLists
    /\ spray_chart = None
    /\ chart_called = FALSE
    /\ IdleBut({"chart"})

SprayChartCall ==
    /\ ~chart_called
    /\ spray_chart' = Some(generate_spray_chart_html(spray_chart_data))
    /\ chart_called' = TRUE
    /\ UNCHANGED spray_chart_data
    /\ FrameBut({"chart"})

NextChart == SprayChartCall

SpecChart == InitChart /\ [][NextChart]_vars

---------------------------------------------------------------------------
(* The report functions called one after another on the same arguments, as
   generate_hitter_pdf calls them *)

UnsortedPop == <<100, 80, 90>>

InitReport ==
    /\ player_value = Some(92)
    /\ college_data_list = Some(UnsortedPop)
    /\ rank_result = None
    /\ diff_result = None
    /\ called = {}
    /\ hitting_data \in {ExampleEvents, <<Ev(None, Some(20)), Ev(Some(96), Some(15))>>}
    /\ hitter_name = None
    /\ prospect_comp = None
    /\ ncaa_reply = None
    /\ summary = None
    /\ lookups = <<>>
    /\ summarized = FALSE
    /\ tier_replies = [level \in Range(levels) |-> TierGood]
    /\ multi_result = None
    /\ multi_lookups = <<>>
    /\ multi_called = FALSE
    /\ contact_data = <<Contact(Some(150), Some(250), Some(-400), Some(100), Some(20)),
                        Contact(Some(10), Some(200), Some(-50), Some(90), None)>>
    /\ contact_views = None
    /\ contact_called = FALSE
    /\ contact_stats = None
    /\ stats_called = FALSE
    /\ spray_chart_data = <<SprayHit(Some(6), Some(101), Some(26)),
                            SprayHit(Some(-30), Some(320), Some(30)),
                            SprayHit(None, Some(200), Some(15))>>
    /\ spray_chart = None
    /\ chart_called = FALSE
    /\ IdleBut({"rank", "summary", "multi", "contact", "chart"})

NextReport ==
    \/ RankCall
    \/ DifferenceCall
    \/ SummaryCall
    \/ MultiLevelCall
    \/ ContactPointsCall
    \/ ContactStatsCall
    \/ SprayChartCall

SpecReport == InitReport /\ [][NextReport]_vars

---------------------------------------------------------------------------
(* Mail delivery *)

\* generate_hitter_pdf: the document, or None for an empty row list, a raising
\* step (a null hitter name, the contact points), a missing template or a
\* rendering error
generate_hitter_pdf_always(in) == Some("pdf_bytes")

generate_hitter_pdf(in) ==
    IF in.hitting_data = <<>> THEN None
    ELSE IF in.hitter_name = None THEN None
    ELSE IF generate_contact_points_html(
                contact_data_of(in.hitting_data, in.positions)).raised THEN None
    ELSE IF in.render # "ok" THEN None
    ELSE Some("pdf_bytes")

SmtpConfig(host, port, use_tls, use_ssl) ==
    [host |-> host, port |-> port, use_tls |-> use_tls, use_ssl |-> use_ssl,
     timeout |-> 30]

builtin_smtp_configs ==
    <<SmtpConfig("smtp.gmail.com", 587, TRUE, FALSE),
      SmtpConfig("smtp.gmail.com", 465, FALSE, TRUE),
      SmtpConfig("smtp-mail.outlook.com", 587, TRUE, FALSE)>>

\* the list the loop walks: the configured host first when host and port are set
smtp_configs(config) ==
    (IF config.EMAIL_HOST # "" /\ config.EMAIL_PORT # 0
     THEN <<SmtpConfig(config.EMAIL_HOST, config.EMAIL_PORT, TRUE, FALSE)>>
     ELSE <<>>) \o builtin_smtp_configs

\* the calls made on one server, in order
smtp_steps(c) ==
    IF c.use_ssl THEN <<"connect", "login", "send_message", "quit">>
    ELSE IF c.use_tls THEN <<"connect", "starttls", "login", "send_message", "quit">>
    ELSE <<"connect", "login", "send_message", "quit">>

\* one pass of the loop body: the calls made on the server, up to and
\* including the failing one. The function imports smtplib inside the SSL
\* branch, which makes the name local to the function: a pass that takes the
\* other branch before any SSL pass has run raises UnboundLocalError at
\* smtplib.SMTP, before any connection is opened. (The handler's own
\* server.quit() has its exception swallowed and changes nothing.)
smtp_attempt(c, failed_at, smtplib_bound) ==
    LET steps == smtp_steps(c)
        fails == \E k \in DOMAIN steps : steps[k] = failed_at
        last == IF fails THEN CHOOSE k \in DOMAIN steps : steps[k] = failed_at
                ELSE Len(steps)
    IN  IF ~c.use_ssl /\ ~smtplib_bound
        THEN [event |-> "smtp", host |-> c.host, port |-> c.port,
              steps |-> <<>>, failed |-> TRUE]
        ELSE [event |-> "smtp", host |-> c.host, port |-> c.port,
              steps |-> SubSeq(steps, 1, last), failed |-> fails]

\* the loop over the configurations from the i-th on: the attempts made and
\* whether True was returned; outcomes[i] is the call the i-th server refuses
RECURSIVE smtp_loop(_, _, _, _)
smtp_loop(configs, outcomes, i, smtplib_bound) ==
    IF i > Len(configs) THEN [attempts |-> <<>>, sent |-> FALSE]
    ELSE LET a == smtp_attempt(configs[i], outcomes[i], smtplib_bound)
         IN  IF ~a.failed THEN [attempts |-> <<a>>, sent |-> TRUE]
             ELSE LET rest == smtp_loop(configs, outcomes, i + 1,
                                        smtplib_bound \/ configs[i].use_ssl)
                  IN  [attempts |-> <<a>> \o rest.attempts, sent |-> rest.sent]

PdfEvent == [event |-> "generate_hitter_pdf", host |-> "", port |-> 0, steps |-> <<>>,
             failed |-> FALSE]

\* send_hitter_email(hitter_name, email, hitting_data, date)
send_hitter_email(in, config, outcomes) ==
    IF ~(config.EMAIL_USERNAME # "" /\ config.EMAIL_PASSWORD # "")
    THEN [result |-> FALSE, log |-> <<>>]
    ELSE LET pdf_data == generate_hitter_pdf(in)
         IN  IF pdf_data = None THEN [result |-> FALSE, log |-> <<PdfEvent>>]
             ELSE LET loop == smtp_loop(smtp_configs(config), outcomes, 1, FALSE)
                  IN  [result |-> loop.sent, log |-> <<PdfEvent>> \o loop.attempts]

---------------------------------------------------------------------------
(* Inputs and specification of mail delivery *)

MailConfig(host, port, username, password) ==
    [EMAIL_HOST |-> host, EMAIL_PORT |-> port, EMAIL_USERNAME |-> username,
     EMAIL_PASSWORD |-> password]

MailConfigs ==
    {MailConfig("smtp.example.org", 2525, "coach", "secret"),
     MailConfig("", 587, "coach", "secret"),
     MailConfig("smtp.gmail.com", 587, "", ""),
     MailConfig("smtp.gmail.com", 587, "coach", "")}

MailInput(hd, name, positions, render) ==
    [hitting_data |-> hd, hitter_name |-> name, positions |-> positions,
     render |-> render]

MailInputs ==
    {MailInput(ExampleEvents, Some("Ann"), <<InZone, NoContact, InZone>>, "ok"),
     MailInput(ExampleEvents, Some("Ann"), <<InZone, NoContact, InZone>>,
               "template_missing"),
     MailInput(ExampleEvents, Some("Ann"), <<InZone, NoContact, InZone>>, "render_error"),
     MailInput(<<>>, Some("Ann"), <<>>, "ok"),
     MailInput(<<Ev(None, Some(20))>>, Some("Ann"), <<InZone>>, "ok")}

SmtpFailures == {"connect", "starttls", "login", "send_message", "quit", "none"}

MaxSmtpConfigs == 4

InitMail ==
    /\ mail_config \in MailConfigs
    /\ mail_input \in MailInputs
    /\ smtp_outcomes \in [1..MaxSmtpConfigs -> SmtpFailures]
    /\ mail_log = <<>>
    /\ mail_result = None
    /\ mail_called = FALSE
    /\ IdleBut({"mail"})

MailCall ==
    /\ ~mail_called
    /\ LET out == send_hitter_email(mail_input, mail_config, smtp_outcomes)
       IN  /\ mail_result' = Some(out.result)
           /\ mail_log' = out.log
    /\ mail_called' = TRUE
    /\ UNCHANGED <<mail_config, mail_input, smtp_outcomes>>
    /\ FrameBut({"mail"})

NextMail == MailCall

SpecMail == InitMail /\ [][NextMail]_vars

---------------------------------------------------------------------------
(* Batch route *)

\* if row.Prospect in hitters_from_test and row.Email
row_selected_any_email(row, hitters_from_test) == row.Prospect \in hitters_from_test

row_selected(row, hitters_from_test) ==
    /\ row.Prospect \in hitters_from_test
    /\ row.Email # None
    /\ row.Email # Some("")

\* email_success for the i-th prospect row
email_success(in, i) ==
    send_hitter_email(
        MailInput(in.deliveries[i].hitting_data, Some(in.prospects[i].Prospect),
                  in.deliveries[i].positions, in.deliveries[i].render),
        in.config, in.deliveries[i].outcomes).result

SentEntry(row, hitter_rows) ==
    [hitter |-> row.Prospect, email |-> row.Email, type |-> row.Type,
     event |-> row.Event, at_bats |-> Len(hitter_rows)]

FailedEntry(row) ==
    [hitter |-> row.Prospect, email |-> row.Email, error |-> "Email sending failed"]

\* the loop over prospects_result from the i-th row on, acc holding the two
\* lists built so far; query_fails = i is the detail query of the i-th row
\* raising
RECURSIVE prospects_loop(_, _, _)
prospects_loop(in, i, acc) ==
    IF i > Len(in.prospects) THEN acc
    ELSE IF ~row_selected(in.prospects[i], in.hitters_from_test)
    THEN prospects_loop(in, i + 1, acc)
    ELSE IF in.query_fails = i THEN [acc EXCEPT !.raised = TRUE]
    ELSE IF email_success(in, i)
    THEN prospects_loop(in, i + 1,
             [acc EXCEPT !.sent_emails =
                             Append(@, SentEntry(in.prospects[i],
                                                 in.deliveries[i].hitting_data)),
                         !.attempts = Append(@, i)])
    ELSE prospects_loop(in, i + 1,
             [acc EXCEPT !.failed_emails = Append(@, FailedEntry(in.prospects[i])),
                         !.attempts = Append(@, i)])

EmptyLists ==
    [raised |-> FALSE, sent_emails |-> <<>>, failed_emails |-> <<>>, attempts |-> <<>>]

ErrorResponse(code) ==
    [status |-> code, success |-> FALSE, emails_sent_successfully |-> 0,
     emails_failed |-> 0, sent_emails |-> <<>>, failed_emails |-> <<>>]

HittersQueryFails == 0 - 1

ProspectsQueryFails == 0 - 2

\* send_emails(): the response and the rows mail was attempted for
send_emails(in) ==
    IF ~in.client THEN [response |-> ErrorResponse(500), attempts |-> <<>>]
    ELSE IF in.date = "" THEN [response |-> ErrorResponse(400), attempts |-> <<>>]
    ELSE IF in.query_fails \in {HittersQueryFails, ProspectsQueryFails}
    THEN [response |-> ErrorResponse(500), attempts |-> <<>>]
    ELSE LET loop == prospects_loop(in, 1, EmptyLists)
         IN  IF loop.raised
             THEN [response |-> ErrorResponse(500), attempts |-> loop.attempts]
             ELSE [response |->
                       [status |-> 200, success |-> TRUE,
                        emails_sent_successfully |-> Len(loop.sent_emails),
                        emails_failed |-> Len(loop.failed_emails),
                        sent_emails |-> loop.sent_emails,
                        failed_emails |-> loop.failed_emails],
                   attempts |-> loop.attempts]

---------------------------------------------------------------------------
(* Inputs and specification of the batch route *)

MaxProspects == 3

ProspectRow(prospect, email) ==
    [Event |-> "Showcase", Prospect |-> prospect, Email |-> email, Type |-> "Hitting",
     Comp |-> "D1"]

ProspectRows ==
    {ProspectRow("Ann", Some("ann@example.org")), ProspectRow("Ann", Some("")),
     ProspectRow("Bob", Some("bob@example.org")), ProspectRow("Bob", None)}

\* the detail rows of a hitter and what the mail servers do with the message
Delivery(hd, positions, failed_at) ==
    [hitting_data |-> hd, positions |-> positions, render |-> "ok",
     outcomes |-> [k \in 1..MaxSmtpConfigs |-> failed_at]]

Deliveries ==
    {Delivery(ExampleEvents, <<InZone, NoContact, InZone>>, "none"),
     Delivery(<<Ev(Some(100), Some(20))>>, <<InZone>>, "connect")}

BatchConfigs ==
    {MailConfig("smtp.example.org", 2525, "coach", "secret"),
     MailConfig("smtp.gmail.com", 587, "", "")}

BatchInput(client, date, hitters, prospects, deliveries, query_fails, config) ==
    [client |-> client, date |-> date, hitters_from_test |-> hitters,
     prospects |-> prospects, deliveries |-> deliveries, query_fails |-> query_fails,
     config |-> config]

\* a request refused before any query, or one that reaches the warehouse
InitBatch ==
    /\ \/ \E client \in BOOLEAN, date \in {"", "2024-01-01"}, config \in BatchConfigs :
              batch_input = BatchInput(client, date, {}, <<>>, <<>>, 0, config)
       \/ \E n \in 0..MaxProspects :
              \E hitters \in SUBSET {"Ann", "Bob"},
                 prospects \in [1..n -> ProspectRows],
                 deliveries \in [1..n -> Deliveries],
                 query_fails \in {HittersQueryFails, ProspectsQueryFails} \cup 0..n,
                 config \in BatchConfigs :
                  batch_input = BatchInput(TRUE, "2024-01-01", hitters, prospects,
                                           deliveries, query_fails, config)
    /\ batch_attempts = <<>>
    /\ batch_response = None
    /\ batch_called = FALSE
    /\ IdleBut({"batch"})

BatchCall ==
    /\ ~batch_called
    /\ LET out == send_emails(batch_input)
       IN  /\ batch_response' = Some(out.response)
           /\ batch_attempts' = out.attempts
    /\ batch_called' = TRUE
    /\ UNCHANGED batch_input
    /\ FrameBut({"batch"})

NextBatch == BatchCall

SpecBatch == InitBatch /\ [][NextBatch]_vars

---------------------------------------------------------------------------
(* The summary and the multi-level sweep on the same rows *)

\* the five locals calculate_hitting_summary computes before rounding
summary_metrics(hd, balls) ==
    LET exit_velocities == [i \in 1..Len(balls) |-> balls[i].ExitSpeed[1]]
        sorted_velocities == sorted(exit_velocities)
        hard_hits == Cardinality({i \in 1..Len(balls) : is_hard_hit(balls[i])})
        barrels == Cardinality({i \in 1..Len(balls) : is_barrel(balls[i])})
        total_balls_with_ev == total_balls(hd, balls)
    IN  [avg_exit_velo |-> Rat(SumSeq(exit_velocities), Len(exit_velocities)),
         percentile_90_ev |->
             Rat(sorted_velocities[percentile_90_index(Len(sorted_velocities)) + 1], 1),
         max_exit_velo |-> Rat(MaxOf(exit_velocities), 1),
         barrel_rate |-> Rat(barrels * 100, total_balls_with_ev),
         hardhit_rate |-> Rat(hard_hits * 100, total_balls_with_ev)]

\* every event of the pool alone, and lists mixing usable and unusable events
MetricsEventLists ==
    MultiEventLists
    \cup {<<Ev(Some(95), Some(8)), Ev(None, Some(20))>>,
          <<Ev(Some(0), Some(15)), Ev(Some(95), Some(32)), Ev(Some(100), Some(33))>>,
          <<Ev(None, Some(20)), Ev(Some(0), Some(15))>>,
          <<Ev(Some(94), Some(20)), Ev(Some(100), Some(7)), Ev(Some(100), None)>>,
          BlockEvents(MaxLongEvents, 5, 4)}

InitMetrics ==
    /\ hitting_data \in MetricsEventLists
    /\ tier_replies = [level \in Range(levels) |-> TierGood]
    /\ hitter_name = None
    /\ prospect_comp = None
    /\ ncaa_reply = None
    /\ summary = None
    /\ lookups = <<>>
    /\ summarized = FALSE
    /\ multi_result = None
    /\ multi_lookups = <<>>
    /\ multi_called = FALSE
    /\ IdleBut({"summary", "multi"})

\* generate_hitter_pdf calls both functions on the same hitting_data
NextMetrics == SummaryCall \/ MultiLevelCall

SpecMetrics == InitMetrics /\ [][NextMetrics]_vars

---------------------------------------------------------------------------
(* Competition-level resolution *)

\* the WHERE clause get_college_hitting_percentile_data builds for a level
percentile_level_filter(comparison_level) ==
    IF comparison_level = "SEC" THEN "League = 'SEC'"
    ELSE IF comparison_level \in {"D1", "D2", "D3"}
         THEN IF comparison_level = "D1" THEN "Level = 'D1'"
              ELSE IF comparison_level = "D2" THEN "Level = 'D2'"
              ELSE "Level = 'D3'"
         ELSE "Level = 'D1'"

\* what the Info table can hold in Comp
CompValues == {None, Some(""), Some("SEC"), Some("D1"), Some("D2"), Some("D3"),
               Some("JUCO"), Some("d1")}

LevelProspectReplies ==
    {[raised |-> TRUE, rows |-> <<>>], [raised |-> FALSE, rows |-> <<>>]}
    \cup {[raised |-> FALSE, rows |-> <<[Comp |-> c]>>] : c \in CompValues}

LevelIds == {"SEC", "D1", "D2", "D3", "JUCO", "d1", ""}

InitLevel ==
    /\ hitting_data \in {<<>>, ExampleEvents, <<Ev(None, Some(20))>>}
    /\ hitter_name = None
    /\ prospect_comp = None
    /\ ncaa_reply = None
    /\ summary = None
    /\ lookups = <<>>
    /\ summarized = FALSE
    /\ level_id \in LevelIds
    /\ level_filters = None
    /\ level_called = FALSE
    /\ IdleBut({"summary", "level"})

\* calculate_hitting_summary for a hitter whose Info row holds any Comp value
LevelSummaryCall ==
    /\ ~summarized
    /\ \E name \in HitterNames, prospect \in LevelProspectReplies,
          ncaa \in {NcaaRaise, NcaaData} :
        LET out == calculate_hitting_summary(hitting_data, name, prospect, ncaa)
        IN  /\ summary' = out.ret
            /\ lookups' = out.lookups
            /\ hitter_name' = name
            /\ prospect_comp' = IF out.lookups = <<>> THEN None ELSE Some(prospect)
            /\ ncaa_reply' = IF out.lookups = <<>> THEN None ELSE Some(ncaa)
    /\ summarized' = TRUE
    /\ UNCHANGED <<hitting_data, level_id, level_filters, level_called>>
    /\ FrameBut({"summary", "level"})

\* the two reference queries build their WHERE clause for a level identifier
LevelFilterCall ==
    /\ ~level_called
    /\ level_filters' = Some([averages |-> level_filter(level_id),
                              percentiles |-> percentile_level_filter(level_id)])
    /\ level_called' = TRUE
    /\ UNCHANGED <<hitting_data, hitter_name, prospect_comp, ncaa_reply, summary,
                   lookups, summarized, level_id>>
    /\ FrameBut({"summary", "level"})

NextLevel == LevelSummaryCall \/ LevelFilterCall

SpecLevel == InitLevel /\ [][NextLevel]_vars

---------------------------------------------------------------------------
(* Specification of the mean-difference comparison *)

ComparisonValues ==
    {Rat(0, 1), Rat(-5, 1), Rat(125, 10), Rat(200, 3), Rat(8846, 100), Rat(885, 10),
     Rat(286, 3), Rat(953, 10), Rat(100, 1), Rat(1042, 10)}

InitComparison ==
    /\ cmp_player \in {None} \cup {Some(v) : v \in ComparisonValues}
    /\ cmp_reference \in {None} \cup {Some(v) : v \in ComparisonValues}
    /\ cmp_result = None
    /\ compared = FALSE
    /\ IdleBut({"cmp"})

ComparisonCall ==
    /\ ~compared
    /\ cmp_result' = calculate_hitting_comparison(cmp_player, cmp_reference)
    /\ compared' = TRUE
    /\ UNCHANGED <<cmp_player, cmp_reference>>
    /\ FrameBut({"cmp"})

NextComparison == ComparisonCall

SpecComparison == InitComparison /\ [][NextComparison]_vars

---------------------------------------------------------------------------
(* Claims about the comparator, checked under SpecRank *)

RankReturned == "rank" \in called /\ rank_result # None

\* C1: for every non-null player value and every non-empty population, of any
\* size, the percentile returned by calculate_hitting_percentile_rank lies in
\* [1, 99] (10..990 tenths).
C1_PercentileWithinOneAndNinetyNine ==
    RankReturned =>
        (rank_result[1].percentile >= 10 /\ rank_result[1].percentile <= 990)

\* C2: calculate_hitting_percentile_rank is monotonic in the player value: for
\* a fixed population, a larger player value never gets a smaller percentile.
C2_RankMonotonicInPlayerValue ==
    RankReturned =>
        \A v2 \in PlayerValues :
            player_value[1] < v2 =>
                rank_result[1].percentile <=
                    calculate_hitting_percentile_rank(Some(v2), college_data_list)[1].percentile

\* C3: for a non-null player value and a non-empty population the result is
\* percentile = (members strictly below the player value) / size * 100 to the
\* nearest tenth, 0 replaced by 1.0 and 100 by 99.0; better is exactly
\* percentile >= 50; total_hitters is the population size.
C3_RankIsStrictlyBelowShare ==
    ("rank" \in called /\ player_value # None /\ college_data_list # None
        /\ college_data_list # Some(<<>>)) =>
        /\ rank_result # None
        /\ LET pop == college_data_list[1]
               n == Len(pop)
               below == Cardinality({i \in 1..n : pop[i] < player_value[1]})
               p == rank_result[1].percentile
           IN  /\ rank_result[1].total_hitters = n
               /\ rank_result[1].better = (p >= 500)
               /\ \E r \in 0..1000 :
                    /\ 2 * Abs(r * n - 1000 * below) <= n
                    /\ p = (IF r = 0 THEN 10 ELSE IF r = 1000 THEN 990 ELSE r)

\* C3 witness: the population [80,85,90,95,100] and the player value 92 give
\* 60.0 and better = true.
C3_ExampleReached ==
    /\ "rank" \in called
    /\ player_value = Some(92)
    /\ college_data_list = Some(ExamplePop)
    /\ rank_result = Some([percentile |-> 600, better |-> TRUE, total_hitters |-> 5])

\* C4: calculate_hitting_percentile_rank and its wrapper return null exactly
\* when the player value is null or the population is null or empty.
C4_NullExactlyOnMissingInput ==
    LET missing == player_value = None \/ college_data_list = None
                       \/ college_data_list = Some(<<>>)
    IN  /\ "rank" \in called => ((rank_result = None) <=> missing)
        /\ "difference" \in called => ((diff_result = None) <=> missing)

\* C4 witness: both functions have run on a null player value with a non-empty
\* population and on nothing else returned null.
C4_NullInputReached ==
    /\ called = {"rank", "difference"}
    /\ player_value = None
    /\ college_data_list = Some(ExamplePop)
    /\ rank_result = None
    /\ diff_result = None

---------------------------------------------------------------------------
(* Claims about the summary engine, checked under Spec *)

\* the exit speeds of the events of the request that have a usable exit speed
UsableSpeeds ==
    LET balls == SelectSeq(hitting_data,
                    LAMBDA h : h.ExitSpeed # None /\ h.ExitSpeed[1] # 0)
    IN  [i \in 1..Len(balls) |-> balls[i].ExitSpeed[1]]

FiveStats(r) ==
    <<r.avg_exit_velo, r.percentile_90_ev, r.max_exit_velo, r.barrel_rate,
      r.hardhit_rate>>

\* C5: with N >= 1 usable exit speeds, the 90th-percentile exit velocity is the
\* element at index floor(0.9 * N) of the ascending-sorted speeds, and that
\* index is below N.
C5_Percentile90IsTruncatedIndex ==
    (summarized /\ Len(UsableSpeeds) >= 1) =>
        /\ summary # None
        /\ LET ev == UsableSpeeds
               N == Len(ev)
           IN  \E idx \in 0..(N - 1) :
                 /\ 10 * idx <= 9 * N
                 /\ 9 * N < 10 * (idx + 1)
                 /\ \E v \in Range(ev) :
                      /\ Cardinality({i \in 1..N : ev[i] < v}) <= idx
                      /\ idx < Cardinality({i \in 1..N : ev[i] <= v})
                      /\ summary[1].percentile_90_ev = 10 * v

\* C5 witness: eleven usable speeds, ten at 90 and one at 100: index 9 of the
\* sorted list is 90, not the maximum.
C5_BelowMaxReached ==
    /\ summarized
    /\ Len(UsableSpeeds) = 11
    /\ summary # None
    /\ summary[1].percentile_90_ev = 900
    /\ summary[1].max_exit_velo = 1000

\* C6: the barrel rate returned is at most the hard-hit rate returned, and both
\* lie in [0, 100].
C6_BarrelRateAtMostHardHitRate ==
    (summarized /\ summary # None) =>
        /\ summary[1].barrel_rate <= summary[1].hardhit_rate
        /\ summary[1].barrel_rate >= 0
        /\ summary[1].hardhit_rate <= 1000

\* C6 witness: a summary with some barrels and more hard hits than barrels.
C6_FewerBarrelsReached ==
    /\ summarized
    /\ summary # None
    /\ 0 < summary[1].barrel_rate
    /\ summary[1].barrel_rate < summary[1].hardhit_rate
    /\ \E i \in DOMAIN hitting_data : hitting_data[i] = Ev(Some(100), Some(33))

\* C7: an event is hard-hit exactly when its exit speed is >= 95 and a barrel
\* exactly when it is hard-hit with a non-null launch angle in [8, 32]; each
\* rate is its count / number of events with exit speed * 100 to 1 decimal.
C7_RatesCountHardHitsAndBarrels ==
    (summarized /\ Len(UsableSpeeds) >= 1) =>
        /\ summary # None
        /\ LET balls == SelectSeq(hitting_data,
                            LAMBDA h : h.ExitSpeed # None /\ h.ExitSpeed[1] # 0)
               N == Len(balls)
               hard == {i \in 1..N : balls[i].ExitSpeed[1] >= 95}
               barrel == {i \in hard : /\ balls[i].Angle # None
                                       /\ balls[i].Angle[1] >= 8
                                       /\ balls[i].Angle[1] <= 32}
           IN  /\ 2 * Abs(summary[1].hardhit_rate * N - 1000 * Cardinality(hard)) <= N
               /\ 2 * Abs(summary[1].barrel_rate * N - 1000 * Cardinality(barrel)) <= N

\* C7 witness: the events (100,20), (90,5), (96,15) give max 100, average 95.3
\* and both rates 66.7.
C7_ExampleReached ==
    /\ summarized
    /\ hitting_data = ExampleEvents
    /\ summary # None
    /\ FiveStats(summary[1]) = <<953, 1000, 1000, 667, 667>>

InsertAt(s, i, e) == SubSeq(s, 1, i) \o <<e>> \o SubSeq(s, i + 1, Len(s))

RemoveAt(s, i) == SubSeq(s, 1, i - 1) \o SubSeq(s, i + 1, Len(s))

Unusable(e) == e.ExitSpeed = None \/ e.ExitSpeed = Some(0)

StatsOf(hd) ==
    FiveStats(calculate_hitting_summary(hd, hitter_name, [raised |-> TRUE, rows |-> <<>>],
                                        NcaaRaise).ret[1])

\* C8: with at least one usable exit speed, inserting or removing an event
\* whose exit speed is null or 0 leaves the five statistics unchanged.
C8_UnusableEventsDoNotCount ==
    (summarized /\ Len(UsableSpeeds) >= 1) =>
        /\ summary # None
        /\ \A e \in {x \in EventPool : Unusable(x)} :
             \A i \in 0..Len(hitting_data) :
                StatsOf(InsertAt(hitting_data, i, e)) = FiveStats(summary[1])
        /\ \A i \in DOMAIN hitting_data :
             Unusable(hitting_data[i]) =>
                StatsOf(RemoveAt(hitting_data, i)) = FiveStats(summary[1])

\* C8 witness: a request with a zero-speed event and a usable event, summarized.
C8_MixedListReached ==
    /\ summarized
    /\ hitting_data = <<Ev(Some(0), Some(15)), Ev(Some(100), Some(20))>>
    /\ summary # None
    /\ FiveStats(summary[1]) = <<1000, 1000, 1000, 1000, 1000>>

\* C9 (as stated): whenever no event has a usable exit speed, the summary has
\* the five fields at 0, no comparison field, and no lookup is made.
C9_NoUsableEventGivesZeroSummary ==
    (summarized /\ Len(UsableSpeeds) = 0) =>
        /\ summary = Some(zero_summary)
        /\ lookups = <<>>

\* C9 (amended): whenever the event list is non-empty and no event has a
\* usable exit speed, the summary has exactly the five fields, all 0, and no
\* lookup is made; for an empty event list the result is null, again with no
\* lookup.
C9_ZeroSummaryOrNull ==
    (summarized /\ Len(UsableSpeeds) = 0) =>
        /\ lookups = <<>>
        /\ IF hitting_data = <<>>
           THEN summary = None
           ELSE /\ summary # None
                /\ DOMAIN summary[1] = {"avg_exit_velo", "percentile_90_ev",
                       "max_exit_velo", "barrel_rate", "hardhit_rate"}
                /\ FiveStats(summary[1]) = <<0, 0, 0, 0, 0>>

\* C9 witness: a named hitter whose only events have no usable exit speed.
C9_ZeroSummaryReached ==
    /\ summarized
    /\ hitter_name = Some("Ann")
    /\ hitting_data = <<Ev(None, Some(20)), Ev(Some(0), Some(15))>>
    /\ summary = Some(zero_summary)
    /\ lookups = <<>>

LookupFailed ==
    /\ summarized
    /\ ncaa_reply # None
    /\ (ncaa_reply[1].raised \/ ncaa_reply[1].ball_row.total_batted_balls = 0)

\* C10: when the reference lookup for the hitter's level raises or returns no
\* data, the summary still has the five metrics it has with a successful
\* lookup, and every reference value and comparison verdict is null.
C10_FailedLookupLeavesMetrics ==
    LookupFailed =>
        /\ summary # None
        /\ FiveStats(summary[1]) =
             FiveStats(calculate_hitting_summary(hitting_data, hitter_name,
                                                 prospect_comp[1], NcaaData).ret[1])
        /\ \A k \in {"college_avg_exit_velo", "college_percentile_90_ev",
                     "college_max_exit_velo", "college_barrel_rate",
                     "college_hardhit_rate", "avg_exit_velo_comp",
                     "percentile_90_ev_comp", "max_exit_velo_comp",
                     "barrel_rate_comp", "hardhit_rate_comp"} :
             summary[1][k] = None

\* C10 witness: the reference query raised during a named hitter's summary of
\* the example events, and the metrics were returned.
C10_RaisedLookupReached ==
    /\ LookupFailed
    /\ ncaa_reply[1].raised
    /\ hitting_data = ExampleEvents
    /\ summary # None
    /\ FiveStats(summary[1]) = <<953, 1000, 1000, 667, 667>>
    /\ summary[1].comparison_level = Some("D2")

---------------------------------------------------------------------------
(* Claims about the spray-position projector, checked under SpecSpray *)

\* C11: for every finite direction and distance (negative or zero distance,
\* distances far above 500 ft, directions outside +-45 degrees included) both
\* coordinates returned by calculate_spray_position lie in [5, 95].
C11_SprayPositionVisible ==
    sprayed =>
        /\ spray_position[1][1] >= 5000000 /\ spray_position[1][1] <= 95000000
        /\ spray_position[1][2] >= 5000000 /\ spray_position[1][2] <= 95000000

\* C11 witness: a negative distance with a direction beyond the foul line, whose
\* unclamped coordinates fall outside the plot on both axes.
C11_OutOfFieldReached ==
    /\ sprayed
    /\ distance = -1000
    /\ direction = 90
    /\ spray_position = Some(<<5000000, 95000000>>)

\* C12: the distance-to-radius mapping is the five-band piecewise-linear
\* function: 0.15 per foot up to 400 ft (0 -> 0, 100 -> 15, 200 -> 30,
\* 300 -> 45, 400 -> 60), 0.10 per foot from 400 to 500 ft, exactly 70 from
\* 500 ft on; it is continuous and non-decreasing for distance >= 0.  Seen at
\* direction 0, where x = 50 and y = 85 - radius.
C12_RadiusIsFiveBandMap ==
    (sprayed /\ direction = 0 /\ distance >= 0) =>
        LET radius == 85000000 - spray_position[1][2]
            next == 85000000 - calculate_spray_position(0, distance + 1)[2]
        IN  /\ spray_position[1][1] = 50000000
            /\ distance <= 400 => radius = 150000 * distance
            /\ (distance > 400 /\ distance < 500) =>
                    radius = 60000000 + 100000 * (distance - 400)
            /\ distance >= 500 => radius = 70000000
            /\ radius <= 70000000
            /\ next >= radius
            /\ next - radius <= 150000
            /\ distance = 100 => radius = 15000000
            /\ distance = 200 => radius = 30000000
            /\ distance = 300 => spray_position[1] = <<50000000, 40000000>>
            /\ distance = 400 => radius = 60000000

\* C12 witness: direction 0 and distance 300 give (50, 40).
C12_ExampleReached ==
    /\ sprayed
    /\ direction = 0
    /\ distance = 300
    /\ spray_position = Some(<<50000000, 40000000>>)

---------------------------------------------------------------------------
(* Claims about the mean-difference comparison, checked under SpecComparison *)

\* C13: calculate_hitting_comparison returns null when either argument is
\* null; otherwise difference = player value - reference, absolute_diff =
\* |difference| and better = (difference > 0), so equal values are not better.
C13_ComparisonIsSignedDifference ==
    compared =>
        IF cmp_player = None \/ cmp_reference = None
        THEN cmp_result = None
        ELSE /\ cmp_result # None
             /\ LET a == cmp_player[1]
                    b == cmp_reference[1]
                    r == cmp_result[1]
                IN  /\ r.difference.d > 0
                    /\ r.difference.n * (a.d * b.d) =
                         (a.n * b.d - b.n * a.d) * r.difference.d
                    /\ r.absolute_diff.d > 0
                    /\ r.absolute_diff.n >= 0
                    /\ r.absolute_diff.n * r.difference.d =
                         Abs(r.difference.n) * r.absolute_diff.d
                    /\ r.better = (a.n * b.d > b.n * a.d)
                    /\ (a = b) => ~r.better

\* C13 witness: a player value equal to the reference was compared and is
\* reported as not better, with difference 0.
C13_EqualValuesReached ==
    /\ compared
    /\ cmp_player = Some(Rat(885, 10))
    /\ cmp_reference = Some(Rat(885, 10))
    /\ cmp_result = Some([difference |-> Rat(0, 1), better |-> FALSE,
                          absolute_diff |-> Rat(0, 1)])

---------------------------------------------------------------------------
(* Claims about the comparisons inside the summary, checked under Spec *)

\* returned player field, returned reference field, comparison field and the
\* key of the reference dictionary, per metric
SummaryMetrics ==
    {<<"avg_exit_velo", "college_avg_exit_velo", "avg_exit_velo_comp", "avg_exit_velo">>,
     <<"percentile_90_ev", "college_percentile_90_ev", "percentile_90_ev_comp",
       "percentile_90_exit_velo">>,
     <<"max_exit_velo", "college_max_exit_velo", "max_exit_velo_comp", "max_exit_velo">>,
     <<"barrel_rate", "college_barrel_rate", "barrel_rate_comp", "barrel_rate">>,
     <<"hardhit_rate", "college_hardhit_rate", "hardhit_rate_comp", "hardhit_rate">>}

\* the reference value of a metric as the warehouse replied it (unrounded)
RawReference(k) ==
    IF k = "max_exit_velo" THEN ncaa_reply[1].max_row.avg_max_exit_velo[1]
    ELSE ncaa_reply[1].ball_row[k][1]

\* the player's metric before rounding, as numerator and denominator
UnroundedPlayer(k) ==
    LET balls == SelectSeq(hitting_data,
                    LAMBDA h : h.ExitSpeed # None /\ h.ExitSpeed[1] # 0)
        N == Len(balls)
        hard == {i \in 1..N : balls[i].ExitSpeed[1] >= 95}
        barrel == {i \in hard : /\ balls[i].Angle # None
                                /\ balls[i].Angle[1] >= 8
                                /\ balls[i].Angle[1] <= 32}
    IN  IF k = "avg_exit_velo" THEN [n |-> SumSeq(UsableSpeeds), d |-> N]
        ELSE IF k = "barrel_rate" THEN [n |-> 100 * Cardinality(barrel), d |-> N]
        ELSE IF k = "hardhit_rate" THEN [n |-> 100 * Cardinality(hard), d |-> N]
        ELSE [n |-> summary[1][k], d |-> 10]

Compared(m) == summarized /\ summary # None /\ Len(UsableSpeeds) >= 1 /\ summary[1][m[3]] # None

\* C14 (as stated): for every metric, the reported difference equals the
\* returned (rounded) player value minus the reference value, whether the
\* reference is taken as returned or as the warehouse gave it.
C14_DifferenceOfReturnedValues ==
    \A m \in SummaryMetrics :
        Compared(m) =>
            LET diff == summary[1][m[3]][1].difference
                ref == RawReference(m[4])
            IN  \/ 10 * diff.n = (summary[1][m[1]] - summary[1][m[2]][1]) * diff.d
                \/ 10 * diff.n * ref.d = (summary[1][m[1]] * ref.d - 10 * ref.n) * diff.d

\* C14 (amended): for every metric, the comparison is computed from the
\* player's metric before rounding: the reported difference equals the
\* unrounded player value minus the unrounded reference value, and is within
\* 0.1 of the returned player value minus the returned reference value.
C14_DifferenceOfUnroundedValues ==
    \A m \in SummaryMetrics :
        Compared(m) =>
            LET diff == summary[1][m[3]][1].difference
                ref == RawReference(m[4])
                pl == UnroundedPlayer(m[1])
            IN  /\ diff.n * (pl.d * ref.d) = (pl.n * ref.d - ref.n * pl.d) * diff.d
                /\ Abs(10 * diff.n - (summary[1][m[1]] - summary[1][m[2]][1]) * diff.d)
                     <= diff.d

\* C14 witness: the example events against a reference average of 88.46: the
\* returned average is 95.3, the reference 88.5, the difference 1031/150.
C14_UnroundedDifferenceReached ==
    /\ summarized
    /\ hitting_data = ExampleEvents
    /\ ncaa_reply = Some(NcaaData)
    /\ summary[1].avg_exit_velo = 953
    /\ summary[1].college_avg_exit_velo = Some(885)
    /\ summary[1].avg_exit_velo_comp # None
    /\ summary[1].avg_exit_velo_comp[1].difference = Rat(1031, 150)


---------------------------------------------------------------------------
(* Multi-level sweep claims (SpecMulti) *)

Tiers == {"D1", "D2", "D3"}

ProspectAsked == IF prospect_comp = None THEN NoRow ELSE prospect_comp[1]

TierEntries(t) == multi_result[1].level_comparisons[t]

\* the lookups of one kind made for one tier
TierLookups(fn, t) ==
    {i \in DOMAIN multi_lookups : multi_lookups[i] = [fn |-> fn, arg |-> t]}

\* the percentile lookup of tier t raised or returned no value at all
PercentilesFailed(t) ==
    LET reply == tier_replies[t].percentiles
    IN  \/ reply.raised
        \/ /\ \A i \in DOMAIN reply.rows : \A k \in DOMAIN reply.rows[i] :
                  reply.rows[i][k] = None
           /\ \A i \in DOMAIN reply.max_rows : reply.max_rows[i].max_exit_velo = None

\* the averages lookup of tier t raised or matched no batted ball
AveragesFailed(t) ==
    \/ tier_replies[t].averages.raised
    \/ tier_replies[t].averages.ball_row.total_batted_balls = 0

\* the entries of tier u had the lookups of tier t succeeded
EntriesHadTierSucceeded(t, u) ==
    get_multi_level_hitting_comparisons(
        hitting_data, hitter_name, ProspectAsked,
        [tier_replies EXCEPT ![t] = TierGood]).ret[1].level_comparisons[u]

\* C15: with at least one usable exit speed the sweep returns an entry for
\* each of D1, D2, D3, each with the five metrics, each metric with a
\* reference-average string, a comparison and a difference string; each tier
\* is looked up once; a tier whose lookups fail or are empty carries 'N/A' and
\* a null comparison, and the other tiers' entries are what they would be had
\* that tier succeeded.
C15_EveryTierHasEntriesIndependently ==
    (multi_called /\ UsableSpeeds # <<>>) =>
        /\ multi_result # None
        /\ DOMAIN multi_result[1].level_comparisons = Tiers
        /\ \A t \in Tiers :
            /\ DOMAIN TierEntries(t) = MetricNames
            /\ \A k \in MetricNames :
                DOMAIN TierEntries(t)[k] = {"college_avg", "comparison", "difference"}
            /\ Cardinality(TierLookups("get_college_hitting_percentile_data", t)) = 1
            /\ Cardinality(TierLookups("get_college_hitting_averages", t)) = 1
            /\ PercentilesFailed(t) =>
                \A k \in MetricNames :
                    /\ TierEntries(t)[k].comparison = None
                    /\ TierEntries(t)[k].difference = NotAvailable
            /\ AveragesFailed(t) =>
                \A k \in MetricNames : TierEntries(t)[k].college_avg = NotAvailable
            /\ \A u \in Tiers \ {t} : TierEntries(u) = EntriesHadTierSucceeded(t, u)

\* a tier failed on both lookups while another tier was compared
C15_FailedTierReached ==
    /\ multi_called
    /\ multi_result # None
    /\ \E t, u \in Tiers :
        /\ tier_replies[t].percentiles.raised
        /\ tier_replies[t].averages.raised
        /\ TierEntries(t)["avg_exit_velo"].college_avg = NotAvailable
        /\ TierEntries(u)["avg_exit_velo"].comparison # None
        /\ TierEntries(u)["avg_exit_velo"].college_avg # NotAvailable

\* the player's unrounded metrics in the sweep
SweepPlayer ==
    player_metrics(SelectSeq(hitting_data,
                             LAMBDA h : h.ExitSpeed # None /\ h.ExitSpeed[1] # 0))

\* the non-null reference values the warehouse holds for a tier and a metric
ReferenceValues(t, k) ==
    IF tier_replies[t].percentiles.raised THEN <<>>
    ELSE IF k = "max_exit_velo"
         THEN NonNullColumn(tier_replies[t].percentiles.max_rows, "max_exit_velo")
         ELSE NonNullColumn(tier_replies[t].percentiles.rows, reference_key(k))

\* the reference mean the warehouse holds for a tier and a metric, None when
\* the lookup failed or the mean is NULL or zero
ReferenceMean(t, k) ==
    IF AveragesFailed(t) THEN None
    ELSE LET x == IF k = "max_exit_velo"
                  THEN tier_replies[t].averages.max_row.avg_max_exit_velo
                  ELSE tier_replies[t].averages.ball_row[reference_key(k)]
         IN  IF x = None \/ x[1].n = 0 THEN None ELSE x

\* the percentile rank of the player's metric in the tier's reference values
SweepRank(t, k) ==
    calculate_hitting_percentile_rank(
        Some(SweepPlayer[k].n),
        Some([i \in 1..Len(ReferenceValues(t, k)) |->
                ReferenceValues(t, k)[i] * SweepPlayer[k].d]))

\* the comparison object of an entry is the mean difference: player value
\* minus the reference mean, better by sign
MeanDifferencePresent(t, k) ==
    LET e == TierEntries(t)[k]
        difference == RatSub(SweepPlayer[k], ReferenceMean(t, k)[1])
    IN  /\ e.comparison # None
        /\ Rat(e.comparison[1].difference, 10) = difference
        /\ e.comparison[1].better = (difference.n > 0)

\* the comparison object of an entry is the percentile rank
PercentilePresent(t, k) ==
    LET e == TierEntries(t)[k]
    IN  /\ e.comparison # None
        /\ e.comparison[1].difference = SweepRank(t, k)[1].percentile

\* C16 as stated: whenever a tier's reference data is available, every metric
\* entry of the sweep holds both the mean-difference comparison and the
\* percentile-rank comparison.
C16_BothComparisonsPresent ==
    (multi_called /\ UsableSpeeds # <<>>) =>
        \A t \in Tiers, k \in MetricNames :
            (ReferenceValues(t, k) # <<>> /\ ReferenceMean(t, k) # None) =>
                MeanDifferencePresent(t, k) /\ PercentilePresent(t, k)

\* C16 (amended): the sweep computes the percentile-rank comparison only; for
\* each tier and metric with reference values the comparison object is
\* {difference: percentile, better, absolute_diff: |percentile - 50|} and the
\* difference string is the percentile rounded to an integer, and with a
\* reference mean the reference-average string is that mean rounded to one
\* decimal.
C16_PercentileComparisonAndMeanString ==
    (multi_called /\ UsableSpeeds # <<>>) =>
        \A t \in Tiers, k \in MetricNames :
            LET e == TierEntries(t)[k]
            IN  /\ ReferenceValues(t, k) # <<>> =>
                    /\ e.comparison =
                         Some([difference |-> SweepRank(t, k)[1].percentile,
                               better |-> SweepRank(t, k)[1].better,
                               absolute_diff |->
                                   Abs(SweepRank(t, k)[1].percentile - 500)])
                    /\ ~e.difference.na
                    /\ Abs(10 * e.difference.value - SweepRank(t, k)[1].percentile) <= 5
                /\ ReferenceValues(t, k) = <<>> =>
                    e.comparison = None /\ e.difference = NotAvailable
                /\ ReferenceMean(t, k) # None =>
                    /\ ~e.college_avg.na
                    /\ 2 * Abs(e.college_avg.value * ReferenceMean(t, k)[1].d
                               - 10 * ReferenceMean(t, k)[1].n)
                         <= ReferenceMean(t, k)[1].d
                /\ ReferenceMean(t, k) = None => e.college_avg = NotAvailable

\* a tier with reference data whose comparison is a percentile that is not the
\* mean difference
C16_PercentileOnlyReached ==
    /\ multi_called
    /\ multi_result # None
    /\ \E t \in Tiers, k \in MetricNames :
        /\ ReferenceValues(t, k) # <<>>
        /\ ReferenceMean(t, k) # None
        /\ PercentilePresent(t, k)
        /\ ~MeanDifferencePresent(t, k)
        /\ TierEntries(t)[k].comparison[1].difference % 10 > 5

---------------------------------------------------------------------------
(* Contact-point projector claims (SpecContact) *)

AllPositionsKnown ==
    \A i \in DOMAIN contact_data :
        /\ contact_data[i].ContactPositionX # None
        /\ contact_data[i].ContactPositionY # None
        /\ contact_data[i].ContactPositionZ # None

\* C17: for every list of events with non-null contact position X/Y/Z the
\* projector returns one side-view point and one overhead point per event
\* without raising, whether or not exit speed and launch angle are null.
C17_NeverFailsOnMissingFields ==
    (contact_called /\ AllPositionsKnown) =>
        /\ ~contact_views[1].raised
        /\ Len(contact_views[1].side) = Len(contact_data)
        /\ Len(contact_views[1].overhead) = Len(contact_data)

ContactLabels == {"ground-ball", "line-drive", "barrel", "fly-ball", "unknown"}

\* the event of the summary engine that a contact record is
EventOf(contact) == Ev(contact.ExitSpeed, contact.Angle)

\* C20: with a numeric exit speed get_contact_type returns exactly one of the
\* five labels: 'unknown' for a null angle, 'ground-ball' below 8, between 8
\* and 32 'barrel' at 95 mph or more and 'line-drive' otherwise, 'fly-ball'
\* above 32; and 'barrel' only for events the summary engine counts as barrels.
C20_ContactTypeIsPartition ==
    contact_called =>
        /\ \A i \in DOMAIN contact_data :
            contact_data[i].ExitSpeed # None =>
                LET c == contact_data[i]
                    t == get_contact_type(c)
                    in_band == c.Angle # None /\ 8 <= c.Angle[1] /\ c.Angle[1] <= 32
                IN  /\ t \in ContactLabels
                    /\ t = "unknown" <=> c.Angle = None
                    /\ t = "ground-ball" <=> (c.Angle # None /\ c.Angle[1] < 8)
                    /\ t = "barrel" <=> (in_band /\ c.ExitSpeed[1] >= 95)
                    /\ t = "line-drive" <=> (in_band /\ c.ExitSpeed[1] < 95)
                    /\ t = "fly-ball" <=> (c.Angle # None /\ c.Angle[1] > 32)
                    /\ t = "barrel" => (usable(EventOf(c)) /\ is_barrel(EventOf(c)))
        /\ ~contact_views[1].raised =>
            \A j \in DOMAIN contact_views[1].overhead :
                LET p == contact_views[1].overhead[j]
                IN  /\ p.contact_type \in ContactLabels
                    /\ p.contact_type = "barrel" =>
                          (usable(EventOf(contact_data[p.label]))
                           /\ is_barrel(EventOf(contact_data[p.label])))

\* the projector plotted a barrel at the lower edge of the band and a line drive
C20_BarrelAndLineDriveReached ==
    /\ contact_called
    /\ ~contact_views[1].raised
    /\ \E j, k \in DOMAIN contact_views[1].overhead :
        /\ contact_views[1].overhead[j].contact_type = "barrel"
        /\ contact_data[contact_views[1].overhead[j].label].Angle = Some(8)
        /\ contact_views[1].overhead[k].contact_type = "line-drive"

---------------------------------------------------------------------------
(* Concurrency claim (SpecConcurrent) *)

\* C18: no step of a report request writes the module-level configuration,
\* and two requests interleaved at any step each end with the result they
\* produce when run alone with the same external responses.
C18_InterleavedRequestsAreIndependent ==
    /\ [](\A r \in DOMAIN requests :
             requests[r].pc = "done" =>
                 requests[r].out = send_hitter_email_alone(requests[r].in, module_config))
    /\ [][module_config' = module_config]_vars

\* both requests delivered their reports, for hitters of different levels
C18_BothDoneReached ==
    /\ requests # <<>>
    /\ \A r \in Requests :
          /\ requests[r].pc = "done"
          /\ requests[r].out.sent
          /\ requests[r].out.summary[1] # zero_summary
          /\ requests[r].out.summary[1].comparison_level # None
    /\ requests[1].out.summary[1].comparison_level
         # requests[2].out.summary[1].comparison_level

---------------------------------------------------------------------------
(* Frame claim (SpecReport) *)

\* C19: no call of calculate_hitting_summary, get_multi_level_hitting_comparisons,
\* calculate_hitting_percentile_rank, generate_contact_points_html,
\* generate_spray_chart_html or calculate_contact_stats changes the event list,
\* an event in it, or the reference population list it was given: contents and
\* order are the same after the call as before.
C19_InputsNeverMutated ==
    [][/\ hitting_data' = hitting_data
       /\ college_data_list' = college_data_list
       /\ contact_data' = contact_data
       /\ spray_chart_data' = spray_chart_data]_vars

\* every function has returned and the reference list is still in its
\* original, unsorted order
C19_AllCallsReturnedReached ==
    /\ called = {"rank", "difference"}
    /\ rank_result # None
    /\ summarized
    /\ multi_called
    /\ contact_called
    /\ stats_called
    /\ chart_called
    /\ college_data_list = Some(UnsortedPop)
    /\ sorted(UnsortedPop) # UnsortedPop

---------------------------------------------------------------------------
(* Spray chart claims (SpecChart) *)

\* a record with direction and distance known and a positive distance
Qualifying(hit) ==
    hit.Direction # None /\ hit.Distance # None /\ hit.Distance[1] > 0

QualifyingIndices == {i \in DOMAIN spray_chart_data : Qualifying(spray_chart_data[i])}

QualifyingWith(Test(_)) == Cardinality({i \in QualifyingIndices : Test(spray_chart_data[i])})

ChartBalls == spray_chart[1].balls

ChartStats == spray_chart[1].stats[1]

\* C21: every qualifying event gets exactly one tag, 'foul' for a null angle,
\* 'ground-ball' below 10, 'line-drive' from 10 to 25, 'fly-ball' above 25,
\* never 'barrel'; ground_balls + line_drives + fly_balls is the number of
\* qualifying events with an angle, and non-qualifying events count nowhere.
C21_OneTagPerQualifyingEvent ==
    (chart_called /\ spray_chart_data # <<>>) =>
        /\ Len(ChartBalls) = Cardinality(QualifyingIndices)
        /\ {ChartBalls[j].label : j \in DOMAIN ChartBalls} = QualifyingIndices
        /\ \A j \in DOMAIN ChartBalls :
            LET hit == spray_chart_data[ChartBalls[j].label]
                tag == ChartBalls[j].ball_type
            IN  /\ tag \in {"foul", "ground-ball", "line-drive", "fly-ball"}
                /\ tag = "foul" <=> hit.Angle = None
                /\ tag = "ground-ball" <=> (hit.Angle # None /\ hit.Angle[1] < 10)
                /\ tag = "line-drive" <=>
                      (hit.Angle # None /\ 10 <= hit.Angle[1] /\ hit.Angle[1] <= 25)
                /\ tag = "fly-ball" <=> (hit.Angle # None /\ hit.Angle[1] > 25)
        /\ ChartStats.ground_balls =
              QualifyingWith(LAMBDA h : h.Angle # None /\ h.Angle[1] < 10)
        /\ ChartStats.line_drives =
              QualifyingWith(LAMBDA h : h.Angle # None /\ 10 <= h.Angle[1] /\ h.Angle[1] <= 25)
        /\ ChartStats.fly_balls =
              QualifyingWith(LAMBDA h : h.Angle # None /\ h.Angle[1] > 25)
        /\ ChartStats.ground_balls + ChartStats.line_drives + ChartStats.fly_balls =
              QualifyingWith(LAMBDA h : h.Angle # None)

\* a chart of a ground ball hit at 9 degrees beside a record that does not
\* qualify although it has an angle
C21_MixedChartReached ==
    /\ chart_called
    /\ Len(spray_chart_data) = 2
    /\ Len(ChartBalls) = 1
    /\ ChartBalls[1].ball_type = "ground-ball"
    /\ spray_chart_data[ChartBalls[1].label].Angle = Some(9)
    /\ \E i \in DOMAIN spray_chart_data :
          ~Qualifying(spray_chart_data[i]) /\ spray_chart_data[i].Angle # None
    /\ ChartStats.ground_balls = 1

---------------------------------------------------------------------------
(* Contact-point coordinates (SpecContact) *)

\* the contacts the side view plots: height and depth known
ValidContacts ==
    SelectSeq(contact_data,
              LAMBDA c : c.ContactPositionY # None /\ c.ContactPositionZ # None)

SidePoints == contact_views[1].side

\* a < b for rationals with positive denominators
RatLess(a, b) == a.n * b.d < b.n * a.d

\* C23: in the side view every point's height coordinate lies within
\* [125, 275] (strictly inside, since the 3-inch padding keeps every height
\* off the ends of the range and the equal-heights fallback is never taken),
\* and the depth coordinate is 15 + (25 - depth in inches) / 42 * 350,
\* unclamped.
C23_SideViewHeightInBand ==
    (contact_called /\ ~contact_views[1].raised) =>
        /\ Len(SidePoints) = Len(ValidContacts)
        /\ \A i \in DOMAIN SidePoints :
            LET c == ValidContacts[i]
                lowest == MinOf([j \in DOMAIN ValidContacts |->
                                   ValidContacts[j].ContactPositionY[1]])
                highest == MaxOf([j \in DOMAIN ValidContacts |->
                                    ValidContacts[j].ContactPositionY[1]])
            IN  /\ RatLess(Rat(125, 1), SidePoints[i].svg_y)
                /\ RatLess(SidePoints[i].svg_y, Rat(275, 1))
                \* 275 - (y - (lowest - 3 in)) / (highest - lowest + 6 in) * 150,
                \* heights in hundredths of a foot, 3 in = 25 hundredths
                /\ SidePoints[i].svg_y =
                      Rat(275 * (highest - lowest + 50)
                            - (c.ContactPositionY[1] - lowest + 25) * 150,
                          highest - lowest + 50)
                \* 15 + (25 in - depth) * 350 / 42, depth in hundredths of a foot
                /\ SidePoints[i].svg_x =
                      Rat(15 * 300 + (2500 - 12 * c.ContactPositionZ[1]) * 25, 300)

\* two contacts of different heights, one of them 36 inches in front of the
\* plate, plotted left of the drawing's origin
C23_DepthOutsidePlotReached ==
    /\ contact_called
    /\ ~contact_views[1].raised
    /\ Len(SidePoints) = 2
    /\ SidePoints[1].svg_y # SidePoints[2].svg_y
    /\ \E i \in DOMAIN SidePoints :
          /\ ValidContacts[i].ContactPositionZ = Some(300)
          /\ SidePoints[i].svg_x.n < 0

OverheadPoints == contact_views[1].overhead

\* the events the overhead view plots: side offset and depth known
OverheadIndices ==
    {i \in DOMAIN contact_data :
        contact_data[i].ContactPositionX # None /\ contact_data[i].ContactPositionZ # None}

\* r limited to [5, 95]
InVisibleBand(r, unclamped) ==
    /\ ~RatLess(r, Rat(5, 1))
    /\ ~RatLess(Rat(95, 1), r)
    /\ r = IF RatLess(unclamped, Rat(5, 1)) THEN Rat(5, 1)
           ELSE IF RatLess(Rat(95, 1), unclamped) THEN Rat(95, 1)
           ELSE unclamped

\* C24: in the overhead view every plotted event (side offset and depth known)
\* has both percentages in [5, 95], the side offset mapped so that -18 in is
\* 10% and +18 in is 90%, and is labelled with its 1-based position in the
\* input list.
C24_OverheadPointsVisibleAndLabelled ==
    (contact_called /\ ~contact_views[1].raised /\ ValidContacts # <<>>) =>
        /\ {OverheadPoints[j].label : j \in DOMAIN OverheadPoints} = OverheadIndices
        /\ Len(OverheadPoints) = Cardinality(OverheadIndices)
        /\ \A j \in DOMAIN OverheadPoints :
            LET p == OverheadPoints[j]
                c == contact_data[p.label]
                x == c.ContactPositionX[1]
                z == c.ContactPositionZ[1]
            IN  \* 10 + (x + 18 in) / 36 in * 80, x in hundredths of a foot
                /\ InVisibleBand(p.x_percent, Rat(150 + (x + 150) * 4, 15))
                \* 10 + (z + 17 in) / 34 in * 80
                /\ InVisibleBand(p.z_percent, Rat(1700 + (12 * z + 1700) * 4, 170))
                /\ x = -150 => p.x_percent = Rat(10, 1)
                /\ x = 150 => p.x_percent = Rat(90, 1)
                /\ \A k \in DOMAIN OverheadPoints : j < k => p.label < OverheadPoints[k].label

\* a list whose first record has no side offset: the only point is labelled 2,
\* lies 18 inches to the side and is clamped in depth
C24_SecondEventPlottedReached ==
    /\ contact_called
    /\ ~contact_views[1].raised
    /\ Len(contact_data) = 2
    /\ contact_data[1].ContactPositionX = None
    /\ Len(OverheadPoints) = 1
    /\ OverheadPoints[1].label = 2
    /\ OverheadPoints[1].x_percent = Rat(90, 1)
    /\ OverheadPoints[1].z_percent = Rat(5, 1)

---------------------------------------------------------------------------
(* Contact statistics claim (SpecContact) *)

\* the records with side offset, height and depth all known
QualifyingContacts ==
    {i \in DOMAIN contact_data :
        /\ contact_data[i].ContactPositionX # None
        /\ contact_data[i].ContactPositionY # None
        /\ contact_data[i].ContactPositionZ # None}

---------------------------------------------------------------------------
(* C26: the SMTP configurations are tried in order and the first that works ends the loop *)

MailSent == mail_called /\ mail_result = Some(TRUE)

SmtpAttempts == SelectSeq(mail_log, LAMBDA e : e.event = "smtp")

\* the order the configurations are to be tried in
ExpectedOrder ==
    (IF mail_config.EMAIL_HOST # "" /\ mail_config.EMAIL_PORT # 0
     THEN <<<<mail_config.EMAIL_HOST, mail_config.EMAIL_PORT>>>>
     ELSE <<>>)
    \o <<<<"smtp.gmail.com", 587>>, <<"smtp.gmail.com", 465>>,
         <<"smtp-mail.outlook.com", 587>>>>

\* the i-th server accepts the connection (and TLS where used), the login and
\* the message
ServerDelivers(i) ==
    /\ smtp_outcomes[i] \notin {"connect", "login", "send_message"}
    /\ smtp_outcomes[i] = "starttls" => ExpectedOrder[i] = <<"smtp.gmail.com", 465>>

ReachedSmtpLoop ==
    /\ mail_called
    /\ \E i \in DOMAIN mail_log : mail_log[i].event = "smtp"

\* the messages handed to a server that accepted them
MessagesSent ==
    Cardinality({i \in DOMAIN SmtpAttempts :
                    /\ \E k \in DOMAIN SmtpAttempts[i].steps :
                           SmtpAttempts[i].steps[k] = "send_message"
                    /\ ~(SmtpAttempts[i].failed
                         /\ SmtpAttempts[i].steps[Len(SmtpAttempts[i].steps)]
                                = "send_message")})

\* C26: once send_hitter_email reaches the SMTP loop it tries the
\* configurations in list order (configured host/port first, then Gmail TLS,
\* Gmail SSL, Outlook), stops at the first one whose server accepts connect,
\* login and send, returns True and tries no later one; it returns False only
\* after every configuration has failed; at most four attempts are made.
C26_FirstWorkingConfigurationEndsLoop ==
    ReachedSmtpLoop =>
        LET n == Len(ExpectedOrder)
            working == {i \in 1..n : ServerDelivers(i)}
            first == IF working = {} THEN n
                     ELSE CHOOSE i \in working : \A j \in working : i <= j
        IN  /\ Len(SmtpAttempts) <= 4
            /\ Len(SmtpAttempts) = first
            /\ \A i \in 1..first :
                   <<SmtpAttempts[i].host, SmtpAttempts[i].port>> = ExpectedOrder[i]
            /\ mail_result = Some(working # {})
            /\ MessagesSent <= 1

---------------------------------------------------------------------------
(* C27: no SMTP connection without credentials and a document *)

CredentialsMissing ==
    mail_config.EMAIL_USERNAME = "" \/ mail_config.EMAIL_PASSWORD = ""

\* the cases in which generate_hitter_pdf has no document to return
DocumentMissing == mail_input.hitting_data = <<>> \/ mail_input.render # "ok"

PdfGenerated == \E i \in DOMAIN mail_log : mail_log[i].event = "generate_hitter_pdf"

\* C27: send_hitter_email opens an SMTP connection only when username and
\* password are configured and generate_hitter_pdf returned a document; with
\* missing credentials it returns False without generating the PDF; with no
\* document (empty data, missing template, render error) it returns False
\* without contacting a server; it always returns a boolean.
C27_NoConnectionWithoutCredentialsAndDocument ==
    mail_called =>
        /\ mail_result \in {Some(TRUE), Some(FALSE)}
        /\ CredentialsMissing => mail_result = Some(FALSE) /\ mail_log = <<>>
        /\ DocumentMissing => mail_result = Some(FALSE) /\ SmtpAttempts = <<>>
        /\ SmtpAttempts # <<>> =>
               /\ ~CredentialsMissing
               /\ ~DocumentMissing
               /\ mail_log[1].event = "generate_hitter_pdf"

C27_NoDocumentReached ==
    /\ mail_called
    /\ ~CredentialsMissing
    /\ mail_input.render = "template_missing"
    /\ PdfGenerated
    /\ SmtpAttempts = <<>>
    /\ mail_result = Some(FALSE)

---------------------------------------------------------------------------
(* C28: the batch route reports every matching prospect row exactly once *)

\* the prospect rows that name one of the date's hitters and carry an address
MatchingRows ==
    {i \in DOMAIN batch_input.prospects :
        /\ batch_input.prospects[i].Prospect \in batch_input.hitters_from_test
        /\ batch_input.prospects[i].Email \in {Some("ann@example.org"),
                                                Some("bob@example.org")}}

BatchAnswered == batch_called /\ batch_response[1].status = 200

RowsSent == {i \in MatchingRows : email_success(batch_input, i)}

RECURSIVE RowsInOrder(_, _)
RowsInOrder(S, i) ==
    IF i > Len(batch_input.prospects) THEN <<>>
    ELSE (IF i \in S THEN <<i>> ELSE <<>>) \o RowsInOrder(S, i + 1)

\* C28: when the warehouse queries succeed, every prospect row whose name is
\* among the date's hitters and whose e-mail is non-empty has exactly one
\* entry, in sent_emails or in failed_emails, in prospect order; other rows
\* have none; the two counters add up to the number of such rows; mail is
\* attempted for every such row, also after a failed send.
C28_EveryMatchingRowReportedOnce ==
    BatchAnswered =>
        LET r == batch_response[1]
            sent == RowsInOrder(RowsSent, 1)
            failed == RowsInOrder(MatchingRows \ RowsSent, 1)
        IN  /\ batch_attempts = RowsInOrder(MatchingRows, 1)
            /\ Len(r.sent_emails) = Len(sent)
            /\ Len(r.failed_emails) = Len(failed)
            /\ \A k \in DOMAIN sent :
                   /\ r.sent_emails[k].hitter = batch_input.prospects[sent[k]].Prospect
                   /\ r.sent_emails[k].email = batch_input.prospects[sent[k]].Email
            /\ \A k \in DOMAIN failed :
                   /\ r.failed_emails[k].hitter = batch_input.prospects[failed[k]].Prospect
                   /\ r.failed_emails[k].email = batch_input.prospects[failed[k]].Email
            /\ r.emails_sent_successfully = Len(r.sent_emails)
            /\ r.emails_failed = Len(r.failed_emails)
            /\ r.emails_sent_successfully + r.emails_failed = Cardinality(MatchingRows)

\* a failed send, then a row without an address, then a successful send
C28_SentAfterFailedReached ==
    /\ BatchAnswered
    /\ Len(batch_input.prospects) = 3
    /\ batch_attempts = <<1, 3>>
    /\ Len(batch_response[1].failed_emails) = 1
    /\ Len(batch_response[1].sent_emails) = 1
    /\ batch_response[1].failed_emails[1].hitter = batch_input.prospects[1].Prospect
    /\ batch_response[1].sent_emails[1].hitter = batch_input.prospects[3].Prospect

---------------------------------------------------------------------------
(* C29: the summary and the multi-level sweep compute the same player metrics *)

UsableEvents ==
    SelectSeq(hitting_data, LAMBDA h : h.ExitSpeed # None /\ h.ExitSpeed[1] # 0)

BothComputed == summarized /\ multi_called

ZeroValued(s) ==
    /\ s.avg_exit_velo = 0
    /\ s.percentile_90_ev = 0
    /\ s.max_exit_velo = 0
    /\ s.barrel_rate = 0
    /\ s.hardhit_rate = 0

\* C29: for every event list with at least one usable exit speed the five
\* unrounded player metrics of get_multi_level_hitting_comparisons equal the
\* five unrounded metrics of calculate_hitting_summary, and the sweep returns
\* null exactly when the summary returns null or the zero-valued result.
C29_TwoImplementationsAgree ==
    BothComputed =>
        /\ multi_result = None <=> (summary = None \/ ZeroValued(summary[1]))
        /\ Len(UsableEvents) >= 1 =>
               /\ player_metrics(UsableEvents) = summary_metrics(hitting_data, UsableEvents)
               /\ multi_result # None
               /\ \A k \in {"avg_exit_velo", "percentile_90_ev", "max_exit_velo",
                            "barrel_rate", "hardhit_rate"} :
                      LET v == summary_metrics(hitting_data, UsableEvents)[k]
                      IN  /\ summary[1][k] = Round1(v.n, v.d)
                          /\ multi_result[1][
                                 CASE k = "avg_exit_velo" -> "player_avg_exit_velo"
                                   [] k = "percentile_90_ev" -> "player_percentile_90_ev"
                                   [] k = "max_exit_velo" -> "player_max_exit_velo"
                                   [] k = "barrel_rate" -> "player_barrel_rate"
                                   [] OTHER -> "player_hardhit_rate"] = Round1(v.n, v.d)

\* both functions have run on a list with a 95-mph event inside the barrel band
\* and an unusable event
C29_BothComputedOnBoundaryEventReached ==
    /\ BothComputed
    /\ \E i \in DOMAIN hitting_data :
           /\ hitting_data[i].ExitSpeed = Some(95)
           /\ hitting_data[i].Angle = Some(8)
    /\ Len(UsableEvents) < Len(hitting_data)
    /\ multi_result # None

---------------------------------------------------------------------------
(* C30: the reported comparison level and the population queried *)

\* the WHERE clause that selects the population a level label names
PopulationNamed(label) ==
    CASE label = "SEC" -> "League = 'SEC'"
      [] label = "D1" -> "Level = 'D1'"
      [] label = "D2" -> "Level = 'D2'"
      [] label = "D3" -> "Level = 'D3'"
      [] label = "JUCO" -> "Level = 'JUCO'"
      [] label = "d1" -> "Level = 'd1'"
      [] OTHER -> "Level = ''"

NoUsableLevel ==
    /\ prospect_comp # None
    /\ \/ prospect_comp[1].raised
       \/ prospect_comp[1].rows = <<>>
       \/ prospect_comp[1].rows[1].Comp \in {None, Some("")}

ReferenceAttached ==
    /\ summarized
    /\ summary # None
    /\ lookups # <<>>
    /\ summary[1].college_avg_exit_velo # None

\* C30: get_hitter_competition_level returns 'D1' when the hitter has no
\* record, an empty level, or the lookup raises; both reference queries use
\* the D1 population for every identifier other than SEC, D1, D2, D3; and the
\* comparison_level calculate_hitting_summary reports names the population
\* whose reference values are attached.
C30_ReportedLevelNamesAttachedPopulation ==
    /\ (summarized /\ lookups # <<>> /\ NoUsableLevel) =>
           summary[1].comparison_level = Some("D1")
    /\ (level_called /\ level_id \notin {"SEC", "D1", "D2", "D3"}) =>
           /\ level_filters[1].averages = "Level = 'D1'"
           /\ level_filters[1].percentiles = "Level = 'D1'"
    /\ ReferenceAttached =>
           lookups[2].arg = PopulationNamed(summary[1].comparison_level[1])
=============================================================================
